---- MODULE Spec2Model ----
(***************************************************************************)
(* Style-level metrics pipeline of the Project M dashboard.                *)
(*                                                                         *)
(* The state is one ProjectMProcessor (src/utils/data_processor.py.py):    *)
(* its parameters, the three raw tables and the derived tables, plus the   *)
(* result of the last call (ret).  Every public method is one action.      *)
(*                                                                         *)
(* Representation                                                          *)
(*   text      a tuple of one-character strings, <<"a", "1">> for "a1"     *)
(*   NaN       a missing cell (pandas NaN / None)                          *)
(*   cell      [s |-> text or NaN, d |-> day or NaT]: s is what str()      *)
(*             sees, d is what pd.to_datetime(errors='coerce') returns     *)
(*   day       an integer day number; params.today is Today                *)
(*   ratio     [num, den]: the float num/den; den = 0 is the NaN/inf that  *)
(*             a numpy division by zero produces                           *)
(*   table     [isNone |-> BOOLEAN, rows |-> sequence of records]: a       *)
(*             DataFrame the processor stores, or None                     *)
(*   frame     a table with its header row (columns): an uploaded file     *)
(***************************************************************************)
EXTENDS Integers, Sequences, FiniteSets, TLC

VARIABLES params, sales_raw, returns_raw, catalog_raw,
          master_styles, watchlist_30d, forecast, ret, calls

vars == <<params, sales_raw, returns_raw, catalog_raw,
          master_styles, watchlist_30d, forecast, ret, calls>>

(***************************************************************************)
(* Bounds of the model.                                                    *)
(***************************************************************************)
(* calls made on the processor in one session *)
MaxCalls == 4
(* largest order count handed to calculate_momentum *)
MaxOrders == 2

(***************************************************************************)
(* Scalars.                                                                *)
(***************************************************************************)
NaN == <<"NaN">>
NaT == -1000
NoneVal == -2000
Today == 200

Ratio(n, d) == [num |-> n, den |-> d]
IntRatio(n) == Ratio(n, 1)
(* python's a / b on numpy scalars: b = 0 gives nan or inf, kept as den = 0 *)
Divide(a, b) == Ratio(a, b)
RatioGeq(a, b) == a.num * b.den >= b.num * a.den
RatioGt(a, b) == a.num * b.den > b.num * a.den
RatioLt(a, b) == a.num * b.den < b.num * a.den
RatioEq(a, b) == a.num * b.den = b.num * a.den

NoneTable == [isNone |-> TRUE, rows |-> <<>>]
Table(rows) == [isNone |-> FALSE, rows |-> rows]
NoneFrame == [isNone |-> TRUE, columns |-> <<>>, rows |-> <<>>]
Frame(columns, rows) == [isNone |-> FALSE, columns |-> columns, rows |-> rows]

(***************************************************************************)
(* Text.                                                                   *)
(***************************************************************************)
UpperChars == <<"A", "B", "C", "D", "E", "F", "G", "H", "I", "J", "K", "L", "M",
                "N", "O", "P", "Q", "R", "S", "T", "U", "V", "W", "X", "Y", "Z">>
LowerChars == <<"a", "b", "c", "d", "e", "f", "g", "h", "i", "j", "k", "l", "m",
                "n", "o", "p", "q", "r", "s", "t", "u", "v", "w", "x", "y", "z">>
Digits == <<"0", "1", "2", "3", "4", "5", "6", "7", "8", "9">>

LowerChar(c) ==
    IF \E i \in 1..Len(UpperChars) : UpperChars[i] = c
    THEN LowerChars[CHOOSE i \in 1..Len(UpperChars) : UpperChars[i] = c]
    ELSE c

(* str.lower() *)
Lower(t) == [i \in 1..Len(t) |-> LowerChar(t[i])]

IsDigit(c) == \E i \in 1..Len(Digits) : Digits[i] = c
DigitVal(c) == (CHOOSE i \in 1..Len(Digits) : Digits[i] = c) - 1

(* str.strip(): drop the blanks at both ends *)
RECURSIVE LStrip(_)
LStrip(t) == IF t # <<>> /\ Head(t) = " " THEN LStrip(Tail(t)) ELSE t
RECURSIVE RStrip(_)
RStrip(t) ==
    IF t # <<>> /\ t[Len(t)] = " " THEN RStrip(SubSeq(t, 1, Len(t) - 1)) ELSE t
Strip(t) == RStrip(LStrip(t))

(* needle in hay, for python strings *)
Contains(hay, needle) ==
    \E i \in 1..(Len(hay) - Len(needle) + 1) :
        SubSeq(hay, i, i + Len(needle) - 1) = needle

(* the first of the positions hits, 0 when there is none *)
FirstIndex(hits) ==
    IF hits = {} THEN 0 ELSE CHOOSE i \in hits : \A j \in hits : i <= j

(***************************************************************************)
(* float(s) for the texts of the model: digits with at most one ".", at    *)
(* least one digit (no sign, exponent, "inf", "nan" or "_" is modelled).   *)
(***************************************************************************)
DotAt(t) == FirstIndex({i \in 1..Len(t) : t[i] = "."})
IntPart(t) == IF DotAt(t) = 0 THEN t ELSE SubSeq(t, 1, DotAt(t) - 1)
FracPart(t) == IF DotAt(t) = 0 THEN <<>> ELSE SubSeq(t, DotAt(t) + 1, Len(t))
AllDigits(t) == \A i \in 1..Len(t) : IsDigit(t[i])
IsFloatText(t) ==
    /\ AllDigits(IntPart(t))
    /\ AllDigits(FracPart(t))
    /\ Len(IntPart(t)) + Len(FracPart(t)) > 0

(* num.is_integer() *)
IsIntegerFloat(t) == \A i \in 1..Len(FracPart(t)) : FracPart(t)[i] = "0"

(* str(int(num)): the integer part without its leading zeros *)
RECURSIVE DropLeadingZeros(_)
DropLeadingZeros(t) ==
    IF Len(t) > 1 /\ Head(t) = "0" THEN DropLeadingZeros(Tail(t)) ELSE t
IntText(t) == IF IntPart(t) = <<>> THEN <<"0">> ELSE DropLeadingZeros(IntPart(t))

(* int(float(s)) of a whole-number text *)
RECURSIVE DigitsValue(_)
DigitsValue(t) ==
    IF t = <<>> THEN 0
    ELSE 10 * DigitsValue(SubSeq(t, 1, Len(t) - 1)) + DigitVal(t[Len(t)])

(***************************************************************************)
(* ProjectMProcessor._normalize_style_id                                   *)
(***************************************************************************)
(* a normaliser that looks for the number before it trims *)
NormalizeStyleIdTrimLast(value) ==
    IF value = NaN THEN <<>>
    ELSE LET n == IF IsFloatText(value) /\ IsIntegerFloat(value)
                  THEN IntText(value) ELSE Strip(value)
         IN  Lower(n)

NormalizeStyleId(value) ==
    IF value = NaN THEN <<>>
    ELSE LET s == Strip(value)
             n == IF IsFloatText(s) /\ IsIntegerFloat(s) THEN IntText(s) ELSE s
         IN  Lower(n)

(* pd.to_numeric(errors='coerce') on a cell of whole-number text; NaNNum
   stands for the NaN it gives on anything else *)
NaNNum == -3000
ToNumeric(c) ==
    IF c.s = NaN THEN NaNNum
    ELSE LET s == Strip(c.s)
         IN  IF IsFloatText(s) /\ IsIntegerFloat(s)
             THEN DigitsValue(IntText(s))
             ELSE NaNNum
FillNa(v, dflt) == IF v = NaNNum THEN dflt ELSE v

(* headers of the uploaded files *)
H_OrderDate == <<"O", "r", "d", "e", "r", " ", "D", "a", "t", "e">>
H_StyleID == <<"S", "t", "y", "l", "e", " ", "I", "D">>
H_Price == <<"P", "r", "i", "c", "e">>
H_Qty == <<"Q", "t", "y">>
H_Name == <<"N", "a", "m", "e">>
H_Listed == <<"L", "i", "s", "t", "e", "d">>
H_ReturnDate == <<"R", "e", "t", "u", "r", "n", " ", "D", "a", "t", "e">>
H_Status == <<"S", "t", "a", "t", "u", "s">>
H_RTO == <<"R", "T", "O">>
H_Refund == <<"r", "e", "f", "u", "n", "d">>
H_Date == <<"D", "a", "t", "e">>
H_MyntraOrderDate == <<"M", "y", "n", "t", "r", "a", " ">> \o H_OrderDate

(***************************************************************************)
(* Column detection.  columns_lower = {col.lower(): col}: a dict keyed by  *)
(* the lowered header, so a pattern matches a header only when it equals   *)
(* the whole lowered header, and of two headers with the same lowered text *)
(* the later one is kept.  The result is a column position, 0 when no      *)
(* pattern is a key.                                                       *)
(***************************************************************************)
sales_date_patterns ==
    << <<"c", "r", "e", "a", "t", "e", "d", " ", "o", "n">>,
       <<"o", "r", "d", "e", "r", " ", "d", "a", "t", "e">>,
       <<"o", "r", "d", "e", "r", "_", "d", "a", "t", "e">>,
       <<"c", "r", "e", "a", "t", "e", "d", "_", "o", "n">>,
       <<"c", "r", "e", "a", "t", "e", "d", " ", "d", "a", "t", "e">>,
       <<"d", "a", "t", "e">>,
       <<"o", "r", "d", "e", "r", " ", "c", "r", "e", "a", "t", "i", "o", "n", " ", "d", "a", "t", "e">> >>

sales_style_patterns ==
    << <<"s", "t", "y", "l", "e", " ", "i", "d">>,
       <<"s", "t", "y", "l", "e", "_", "i", "d">>,
       <<"s", "t", "y", "l", "e", " ", "c", "o", "d", "e">>,
       <<"s", "t", "y", "l", "e", "c", "o", "d", "e">>,
       <<"p", "r", "o", "d", "u", "c", "t", " ", "i", "d">>,
       <<"p", "r", "o", "d", "u", "c", "t", "i", "d">>,
       <<"p", "r", "o", "d", "u", "c", "t", " ", "c", "o", "d", "e">> >>

sales_price_patterns ==
    << <<"f", "i", "n", "a", "l", " ", "p", "r", "i", "c", "e">>,
       <<"s", "e", "l", "l", "i", "n", "g", " ", "p", "r", "i", "c", "e">>,
       <<"s", "e", "l", "l", "i", "n", "g", "_", "p", "r", "i", "c", "e">>,
       <<"s", "a", "l", "e", " ", "p", "r", "i", "c", "e">>,
       <<"n", "e", "t", " ", "p", "r", "i", "c", "e">>,
       <<"u", "n", "i", "t", " ", "p", "r", "i", "c", "e">>,
       <<"i", "t", "e", "m", " ", "p", "r", "i", "c", "e">>,
       <<"p", "r", "i", "c", "e">>,
       <<"g", "m", "v">>,
       <<"g", "r", "o", "s", "s", " ", "g", "m", "v">>,
       <<"n", "e", "t", " ", "a", "m", "o", "u", "n", "t">> >>

returns_date_patterns ==
    << <<"r", "e", "t", "u", "r", "n", "_", "r", "e", "g", "i", "s", "t", "e", "r", "e", "d", "_", "o", "n">>,
       <<"r", "e", "t", "u", "r", "n", " ", "r", "e", "g", "i", "s", "t", "e", "r", "e", "d", " ", "o", "n">>,
       <<"r", "e", "t", "u", "r", "n", " ", "d", "a", "t", "e">>,
       <<"r", "e", "t", "u", "r", "n", "_", "d", "a", "t", "e">>,
       <<"r", "e", "g", "i", "s", "t", "e", "r", "e", "d", " ", "o", "n">>,
       <<"r", "e", "g", "i", "s", "t", "e", "r", "e", "d", "_", "o", "n">>,
       <<"c", "r", "e", "a", "t", "e", "d", " ", "o", "n">>,
       <<"c", "r", "e", "a", "t", "e", "d", "_", "o", "n">> >>

returns_style_patterns ==
    << <<"s", "t", "y", "l", "e", "_", "i", "d">>,
       <<"s", "t", "y", "l", "e", " ", "i", "d">>,
       <<"s", "t", "y", "l", "e", " ", "c", "o", "d", "e">>,
       <<"s", "t", "y", "l", "e", "c", "o", "d", "e">>,
       <<"p", "r", "o", "d", "u", "c", "t", " ", "i", "d">>,
       <<"p", "r", "o", "d", "u", "c", "t", "i", "d">> >>

returns_qty_patterns ==
    << <<"q", "u", "a", "n", "t", "i", "t", "y">>,
       <<"q", "t", "y", " ", "r", "e", "t", "u", "r", "n", "e", "d">>,
       <<"q", "u", "a", "n", "t", "i", "t", "y", " ", "r", "e", "t", "u", "r", "n", "e", "d">>,
       <<"u", "n", "i", "t", "s", " ", "r", "e", "t", "u", "r", "n", "e", "d">>,
       <<"r", "e", "t", "u", "r", "n", " ", "q", "t", "y">>,
       <<"q", "t", "y">>,
       <<"r", "e", "t", "u", "r", "n", " ", "q", "u", "a", "n", "t", "i", "t", "y">> >>

returns_type_patterns ==
    << <<"s", "t", "a", "t", "u", "s">>,
       <<"r", "e", "t", "u", "r", "n", " ", "r", "e", "a", "s", "o", "n", " ", "t", "y", "p", "e">>,
       <<"r", "e", "t", "u", "r", "n", "_", "t", "y", "p", "e">>,
       <<"t", "y", "p", "e">> >>

find_style_patterns ==
    << <<"s", "t", "y", "l", "e">>,
       <<"p", "r", "o", "d", "u", "c", "t">>,
       <<"c", "o", "d", "e">>,
       <<"i", "d">>,
       <<"s", "k", "u">> >>


DetectColumn(columns, patterns) ==
    LET lowered == [i \in 1..Len(columns) |-> Lower(columns[i])]
        IsKey(p) == \E i \in 1..Len(columns) : lowered[i] = p
        k == FirstIndex({i \in 1..Len(patterns) : IsKey(patterns[i])})
        cols == {i \in 1..Len(columns) : k # 0 /\ lowered[i] = patterns[k]}
    IN  IF k = 0 THEN 0 ELSE CHOOSE i \in cols : \A j \in cols : i >= j

_detect_sales_columns(df) ==
    [date_col  |-> DetectColumn(df.columns, sales_date_patterns),
     style_col |-> DetectColumn(df.columns, sales_style_patterns),
     price_col |-> DetectColumn(df.columns, sales_price_patterns)]

_detect_returns_columns(df) ==
    [date_col  |-> DetectColumn(df.columns, returns_date_patterns),
     style_col |-> DetectColumn(df.columns, returns_style_patterns),
     qty_col   |-> DetectColumn(df.columns, returns_qty_patterns),
     type_col  |-> DetectColumn(df.columns, returns_type_patterns)]

(* the first column whose lowered header contains one of the five words *)
_find_style_column(df) ==
    LET IsStyle(col) ==
            \E i \in 1..Len(find_style_patterns) :
                Contains(Lower(col), find_style_patterns[i])
    IN  FirstIndex({i \in 1..Len(df.columns) : IsStyle(df.columns[i])})

(***************************************************************************)
(* ProjectMProcessor.__init__                                              *)
(***************************************************************************)
ExcelOffset == 693594

DefaultParams ==
    [zero_sale_age_days       |-> 14,
     high_return_pct          |-> Ratio(35, 100),
     watch_min_orders         |-> 3,
     new_age_days             |-> 60,
     start_recent_min_orders  |-> 2,
     start_prev_max_orders    |-> 0,
     forecast_lookback_days   |-> 30,
     event_days               |-> 10,
     traffic_multiplier       |-> Ratio(3, 1),
     forecast_return_rate     |-> Ratio(25, 100),
     leadtime_days            |-> 7,
     service_level            |-> Ratio(9, 10),
     seasonality_boost        |-> Ratio(1, 1),
     use_momentum_adjust      |-> TRUE,
     report_window_days       |-> 7,
     return_window_days       |-> 60,
     size_split_lookback_days |-> 60,
     size_split_min_share     |-> Ratio(5, 100),
     size_split_min_units     |-> 1,
     brand_filter_mode        |-> "ALL",
     today                    |-> Today]

(* ret: the last call, its argument, the exception it raised ("" when none)
   and the value it returned *)
NoArg == [none |-> TRUE]
NoCall == [op |-> "__init__", arg |-> NoArg, raised |-> "", value |-> NoArg]
Returned(op, arg, v) == [op |-> op, arg |-> arg, raised |-> "", value |-> v]
Raised(op, arg, exc) == [op |-> op, arg |-> arg, raised |-> exc, value |-> NoArg]

Init ==
    /\ params = DefaultParams
    /\ sales_raw = NoneTable
    /\ returns_raw = NoneTable
    /\ catalog_raw = NoneFrame
    /\ master_styles = NoneTable
    /\ watchlist_30d = NoneTable
    /\ forecast = NoneTable
    /\ ret = NoCall
    /\ calls = 0

(* every call of a session is counted; a session makes MaxCalls calls *)
Called == calls < MaxCalls /\ calls' = calls + 1

(***************************************************************************)
(* ProjectMProcessor.import_sales_csv                                      *)
(***************************************************************************)
OrdinalNum(d) == IF d # NaT THEN d + ExcelOffset ELSE 0

SalesRecord(row, m) ==
    [OrderDate    |-> row[m.date_col].d,
     OrderDateNum |-> OrdinalNum(row[m.date_col].d),
     StyleKey     |-> NormalizeStyleId(row[m.style_col].s),
     NetUnits     |-> 1,
     RowUnit      |-> 1,
     NetGMV       |-> IF m.price_col # 0
                      THEN FillNa(ToNumeric(row[m.price_col]), 0)
                      ELSE 0]

ImportResult(ok, n, m, errs) ==
    [success |-> ok, rows_processed |-> n, columns_mapped |-> m, errors |-> errs]

(* an import that would also insist on a price column *)
import_sales_csv_needing_price(df) ==
    LET m == _detect_sales_columns(df)
    IN  IF m.date_col = 0 \/ m.style_col = 0 \/ m.price_col = 0
        THEN [df |-> df, stored |-> FALSE, table |-> NoneTable,
              result |-> ImportResult(FALSE, 0, NoArg,
                            <<"Sales CSV must contain Date and Style columns">>)]
        ELSE [df |-> df, stored |-> TRUE,
              table |-> Table([i \in 1..Len(df.rows) |-> SalesRecord(df.rows[i], m)]),
              result |-> ImportResult(TRUE, Len(df.rows), m, <<>>)]

(* what the call does with df: the result dict it returns and, when the
   try block gets through, the table it stores *)
import_sales_csv(df) ==
    LET m == _detect_sales_columns(df)
    IN  IF m.date_col = 0 \/ m.style_col = 0
        THEN [df |-> df, stored |-> FALSE, table |-> NoneTable,
              result |-> ImportResult(FALSE, 0, NoArg,
                            <<"Sales CSV must contain Date and Style columns">>)]
        ELSE [df |-> df, stored |-> TRUE,
              table |-> Table([i \in 1..Len(df.rows) |-> SalesRecord(df.rows[i], m)]),
              result |-> ImportResult(TRUE, Len(df.rows), m, <<>>)]

(* a faulty import: the stored table is dropped when the import fails *)
ImportSalesCsvDroppingTable(o) ==
    /\ Called
    /\ sales_raw' = o.table
    /\ ret' = Returned("import_sales_csv", o.df, o.result)
    /\ UNCHANGED <<params, returns_raw, catalog_raw, master_styles,
                   watchlist_30d, forecast>>

(* o = import_sales_csv(df) for the uploaded df *)
ImportSalesCsv(o) ==
    /\ Called
    /\ sales_raw' = IF o.stored THEN o.table ELSE sales_raw
    /\ ret' = Returned("import_sales_csv", o.df, o.result)
    /\ UNCHANGED <<params, returns_raw, catalog_raw, master_styles,
                   watchlist_30d, forecast>>

(***************************************************************************)
(* ProjectMProcessor.import_returns_csv                                    *)
(***************************************************************************)
UnknownType == <<"(", "U", "n", "k", "n", "o", "w", "n", ")">>

ReturnRecord(row, m) ==
    [ReturnDate    |-> row[m.date_col].d,
     ReturnDateNum |-> OrdinalNum(row[m.date_col].d),
     StyleKey      |-> NormalizeStyleId(row[m.style_col].s),
     UnitsReturned |-> IF m.qty_col # 0
                       THEN FillNa(ToNumeric(row[m.qty_col]), 1)
                       ELSE 1,
     ReturnType    |-> IF m.type_col # 0 /\ row[m.type_col].s # NaN
                       THEN row[m.type_col].s
                       ELSE UnknownType]

import_returns_csv(df) ==
    LET m == _detect_returns_columns(df)
    IN  IF m.date_col = 0 \/ m.style_col = 0
        THEN [df |-> df, stored |-> FALSE, table |-> NoneTable,
              result |-> ImportResult(FALSE, 0, NoArg,
                            <<"Returns CSV must contain Date and Style columns">>)]
        ELSE [df |-> df, stored |-> TRUE,
              table |-> Table([i \in 1..Len(df.rows) |-> ReturnRecord(df.rows[i], m)]),
              result |-> ImportResult(TRUE, Len(df.rows), m, <<>>)]

(* o = import_returns_csv(df) for the uploaded df *)
ImportReturnsCsv(o) ==
    /\ Called
    /\ returns_raw' = IF o.stored THEN o.table ELSE returns_raw
    /\ ret' = Returned("import_returns_csv", o.df, o.result)
    /\ UNCHANGED <<params, sales_raw, catalog_raw, master_styles,
                   watchlist_30d, forecast>>

(***************************************************************************)
(* The catalog uploader of app.py stores the parsed file as it is.         *)
(***************************************************************************)
LoadCatalog(df) ==
    /\ Called
    /\ catalog_raw' = Frame(df.columns, df.rows)
    /\ ret' = Returned("load_catalog", df, NoArg)
    /\ UNCHANGED <<params, sales_raw, returns_raw, master_styles,
                   watchlist_30d, forecast>>

(***************************************************************************)
(* ProjectMProcessor.update_parameter                                      *)
(***************************************************************************)
UpdateParameter(key, value) ==
    /\ Called
    /\ IF key \in DOMAIN params
       THEN /\ params' = [params EXCEPT ![key] = value]
            /\ ret' = Returned("update_parameter", <<key, value>>, [ok |-> TRUE])
       ELSE /\ UNCHANGED params
            /\ ret' = Returned("update_parameter", <<key, value>>, [ok |-> FALSE])
    /\ UNCHANGED <<sales_raw, returns_raw, catalog_raw, master_styles,
                   watchlist_30d, forecast>>

(***************************************************************************)
(* Series helpers.                                                         *)
(***************************************************************************)
RECURSIVE SumSeq(_)
SumSeq(s) == IF s = <<>> THEN 0 ELSE Head(s) + SumSeq(Tail(s))

Column(rows, f) == [i \in 1..Len(rows) |-> rows[i][f]]

(* Series.unique(): the values in order of first appearance *)
RECURSIVE Unique(_)
Unique(s) ==
    IF s = <<>> THEN <<>>
    ELSE LET init == Unique(SubSeq(s, 1, Len(s) - 1))
             x == s[Len(s)]
         IN  IF \E i \in 1..Len(init) : init[i] = x THEN init ELSE Append(init, x)

(* Series.dropna() *)
DropNa(s) == SelectSeq(s, LAMBDA x : x # NaN)

(* Series.min() / max() of a datetime column: NaT is skipped, and is the
   result when nothing else is there *)
DateMin(s) ==
    IF \A i \in 1..Len(s) : s[i] = NaT THEN NaT
    ELSE CHOOSE d \in {s[i] : i \in 1..Len(s)} \ {NaT} :
            \A i \in 1..Len(s) : s[i] # NaT => d <= s[i]
DateMax(s) ==
    IF \A i \in 1..Len(s) : s[i] = NaT THEN NaT
    ELSE CHOOSE d \in {s[i] : i \in 1..Len(s)} \ {NaT} :
            \A i \in 1..Len(s) : s[i] # NaT => d >= s[i]

(***************************************************************************)
(* ProjectMProcessor.build_master_table                                    *)
(***************************************************************************)
CatalogStyles ==
    IF catalog_raw.isNone \/ Len(catalog_raw.rows) = 0 \/ Len(catalog_raw.columns) = 0
    THEN <<>>
    ELSE LET c == _find_style_column(catalog_raw)
         IN  IF c = 0 THEN <<>>
             ELSE LET u == Unique(DropNa([i \in 1..Len(catalog_raw.rows) |->
                                            catalog_raw.rows[i][c].s]))
                  IN  [i \in 1..Len(u) |->
                          [StyleID |-> u[i], StyleKey |-> NormalizeStyleId(u[i])]]

SalesStyles ==
    IF sales_raw.isNone THEN <<>>
    ELSE LET u == Unique(Column(sales_raw.rows, "StyleKey"))
         IN  [i \in 1..Len(u) |-> [StyleID |-> u[i], StyleKey |-> u[i]]]

(* styles_data: the catalog's styles, the sales keys only when there are none *)
StylesData == IF CatalogStyles # <<>> THEN CatalogStyles ELSE SalesStyles

StyleSales(style_key) ==
    IF sales_raw.isNone THEN <<>>
    ELSE SelectSeq(sales_raw.rows, LAMBDA r : r.StyleKey = style_key)

FirstOrder(style_key) ==
    IF StyleSales(style_key) = <<>> THEN NoneVal
    ELSE DateMin(Column(StyleSales(style_key), "OrderDate"))

LastOrder(style_key) ==
    IF StyleSales(style_key) = <<>> THEN NoneVal
    ELSE DateMax(Column(StyleSales(style_key), "OrderDate"))

StyleUnitsReturned(style_key) ==
    IF returns_raw.isNone THEN 0
    ELSE SumSeq(Column(SelectSeq(returns_raw.rows,
                                 LAMBDA r : r.StyleKey = style_key),
                       "UnitsReturned"))

(* a faulty rate: the division is not guarded *)
StyleReturnPctUnguarded(units_returned, orders) == Divide(units_returned, orders)

(* return_pct = units_returned / orders if orders > 0 else 0 *)
StyleReturnPct(units_returned, orders) ==
    IF orders > 0 THEN Divide(units_returned, orders) ELSE IntRatio(0)

(* a faulty chain: the Orders test comes before the test for no first order *)
MasterStatusOrdersFirst(first_order, orders, today, zero_age) ==
    IF orders = 0 THEN "Zero-Sale"
    ELSE IF first_order = NoneVal THEN "Catalog-Only"
    ELSE IF today - first_order <= 60 THEN "New"
    ELSE "Active"

(* the if/elif chain of lines 258-271; first_order is not NaT here *)
MasterStatus(first_order, orders, today, zero_age) ==
    IF first_order = NoneVal THEN "Catalog-Only"
    ELSE IF orders = 0
         THEN IF today - first_order >= zero_age THEN "Zero-Sale" ELSE "New"
    ELSE IF today - first_order <= 60 THEN "New"
    ELSE IF orders > 0 THEN "Active"
    ELSE "Unknown"

(* a faulty flag: a rate equal to the threshold is not flagged *)
MasterRiskFlagAbove(return_pct, high_ret) ==
    IF RatioGt(return_pct, high_ret) THEN "High Returns" ELSE ""

MasterRiskFlag(return_pct, high_ret) ==
    IF RatioGeq(return_pct, high_ret) THEN "High Returns" ELSE ""

(* a faulty banding: no band from 31 to 60 days *)
MasterBucketNoThirdBand(first_order, today) ==
    IF first_order = NoneVal THEN "Unknown"
    ELSE LET days_since == today - first_order
         IN  IF days_since <= 7 THEN "0-7d"
             ELSE IF days_since <= 30 THEN "8-30d"
             ELSE IF days_since <= 90 THEN "61-90d"
             ELSE "91d+"

(* lines 274-288 *)
MasterBucket(first_order, today) ==
    IF first_order = NoneVal THEN "Unknown"
    ELSE LET days_since == today - first_order
         IN  IF days_since <= 7 THEN "0-7d"
             ELSE IF days_since <= 30 THEN "8-30d"
             ELSE IF days_since <= 60 THEN "31-60d"
             ELSE IF days_since <= 90 THEN "61-90d"
             ELSE "91d+"

(* the dict appended to metrics for one style (lines 292-306) *)
MasterRow(style) ==
    LET style_key == style.StyleKey
        orders == Len(StyleSales(style_key))
        gmv == SumSeq(Column(StyleSales(style_key), "NetGMV"))
        first_order == FirstOrder(style_key)
        units_returned == StyleUnitsReturned(style_key)
        return_pct == StyleReturnPct(units_returned, orders)
    IN  [StyleID                |-> style.StyleID,
         FirstUpdated           |-> first_order,
         Days_Since_FirstUpdate |-> IF first_order = NoneVal THEN NoneVal
                                    ELSE params.today - first_order,
         Newness_Bucket         |-> MasterBucket(first_order, params.today),
         Orders                 |-> orders,
         GMV                    |-> gmv,
         FirstOrderDate         |-> first_order,
         LastOrderDate          |-> LastOrder(style_key),
         UnitsReturned          |-> units_returned,
         ReturnPct              |-> return_pct,
         Status                 |-> MasterStatus(first_order, orders, params.today,
                                                 params.zero_sale_age_days),
         RiskFlag               |-> MasterRiskFlag(return_pct, params.high_return_pct)]

(* today - first_order.date() with first_order = NaT (every sale of the style
   has an unparseable date): datetime.date - NaT is a TypeError *)
MasterRaises ==
    \E i \in 1..Len(StylesData) : FirstOrder(StylesData[i].StyleKey) = NaT

EmptyFrame == Table(<<>>)

BuildMasterTable ==
    /\ Called
    /\ IF (sales_raw.isNone /\ catalog_raw.isNone) \/ StylesData = <<>>
       THEN /\ ret' = Returned("build_master_table", NoArg, EmptyFrame)
            /\ UNCHANGED master_styles
       ELSE IF MasterRaises
       THEN /\ ret' = Raised("build_master_table", NoArg, "TypeError")
            /\ UNCHANGED master_styles
       ELSE /\ master_styles' =
                    Table([i \in 1..Len(StylesData) |-> MasterRow(StylesData[i])])
            /\ ret' = Returned("build_master_table", NoArg, master_styles')
    /\ UNCHANGED <<params, sales_raw, returns_raw, catalog_raw,
                   watchlist_30d, forecast>>


(***************************************************************************)
(* Windows.  Every filter compares calendar dates; a NaT row satisfies no  *)
(* comparison.                                                             *)
(***************************************************************************)
(* (date >= today - window_days) & (date <= today) *)
InRecent(d, today, window_days) ==
    d # NaT /\ d >= today - window_days /\ d <= today

(* (date >= today - 2 * window_days) & (date < today - window_days) *)
InPrev(d, today, window_days) ==
    d # NaT /\ d >= today - window_days * 2 /\ d < today - window_days

(* str.contains('RTO', case=False, na=False) *)
RtoText == <<"r", "t", "o">>
IsRto(return_type) == Contains(Lower(return_type), RtoText)

(***************************************************************************)
(* ProjectMProcessor.build_watchlist_30d                                   *)
(***************************************************************************)
(* does the stored frame have the column? (every row is built alike) *)
HasColumn(table, col) ==
    table.rows # <<>> /\ \A i \in 1..Len(table.rows) : col \in DOMAIN table.rows[i]

(* master_styles[['Style ID', 'StyleKey']].drop_duplicates(), or the sales keys *)
DownstreamStyles ==
    IF ~master_styles.isNone
    THEN Unique([i \in 1..Len(master_styles.rows) |->
                    [StyleID  |-> master_styles.rows[i].StyleID,
                     StyleKey |-> master_styles.rows[i].StyleKey]])
    ELSE SalesStyles

(* a KeyError: the stored master table is read by a column it does not have *)
DownstreamRaises == ~master_styles.isNone /\ ~HasColumn(master_styles, "StyleKey")

OrdersRecent(style_key, window_days) ==
    Len(SelectSeq(sales_raw.rows, LAMBDA r :
            r.StyleKey = style_key /\ InRecent(r.OrderDate, params.today, window_days)))

OrdersPrev(style_key, window_days) ==
    Len(SelectSeq(sales_raw.rows, LAMBDA r :
            r.StyleKey = style_key /\ InPrev(r.OrderDate, params.today, window_days)))

RecentReturns(style_key, window_days) ==
    IF returns_raw.isNone THEN <<>>
    ELSE SelectSeq(returns_raw.rows, LAMBDA r :
            r.StyleKey = style_key /\ InRecent(r.ReturnDate, params.today, window_days))

(* a faulty momentum: the previous count divides whatever it is *)
MomentumUnguarded(orders_recent, orders_prev) ==
    Divide(orders_recent - orders_prev, orders_prev)

(* lines 378-384 *)
Momentum(orders_recent, orders_prev) ==
    IF orders_prev > 0 THEN Divide(orders_recent - orders_prev, orders_prev)
    ELSE IF orders_recent > 0 THEN IntRatio(1)
    ELSE IntRatio(0)

(* age_days: Days_Since_FirstUpdate of the style's first master row *)
AgeDays(style_key) ==
    IF master_styles.isNone THEN NoneVal
    ELSE LET m == SelectSeq(master_styles.rows, LAMBDA r : r.StyleKey = style_key)
         IN  IF m = <<>> THEN NoneVal ELSE m[1].Days_Since_FirstUpdate

(* lines 399-408; a None age from the master table is a NaN, which is <= nothing *)
WatchlistTag(age_days, orders_recent, orders_prev, momentum, new_age, min_orders) ==
    IF age_days # NoneVal /\ age_days <= new_age THEN "NEW"
    ELSE IF orders_recent >= min_orders /\ orders_prev = 0 THEN "STARTED"
    ELSE IF RatioGt(momentum, Ratio(15, 100)) THEN "RISING"
    ELSE IF RatioLt(momentum, Ratio(-15, 100)) THEN "FALLING"
    ELSE "FLAT"

(* 'YES' if age_days and age_days <= new_age else '' *)
WatchlistNewFlag(age_days, new_age) ==
    IF age_days # NoneVal /\ age_days # 0 /\ age_days <= new_age THEN "YES" ELSE ""

WatchlistNote(tag, return_pct, high_ret) ==
    IF tag = "NEW" THEN "New"
    ELSE IF tag = "STARTED" THEN "Started performing recently"
    ELSE IF RatioGeq(return_pct, high_ret) THEN "High returns"
    ELSE IF tag \in {"RISING", "FALLING"} THEN tag
    ELSE ""

WatchlistRow(style) ==
    LET window_days == params.report_window_days
        orders_recent == OrdersRecent(style.StyleKey, window_days)
        orders_prev == OrdersPrev(style.StyleKey, window_days)
        recent_returns == RecentReturns(style.StyleKey, window_days)
        returns_qty == SumSeq(Column(recent_returns, "UnitsReturned"))
        rto_qty == SumSeq(Column(SelectSeq(recent_returns,
                                           LAMBDA r : IsRto(r.ReturnType)),
                                 "UnitsReturned"))
        momentum == Momentum(orders_recent, orders_prev)
        return_pct == IF orders_recent > 0 THEN Divide(returns_qty, orders_recent)
                      ELSE IntRatio(0)
        age_days == AgeDays(style.StyleKey)
        tag == WatchlistTag(age_days, orders_recent, orders_prev, momentum,
                            params.new_age_days, params.watch_min_orders)
    IN  [StyleID       |-> style.StyleID,
         Tag           |-> tag,
         Orders30dEst  |-> orders_recent,
         Returns30dQty |-> returns_qty,
         ReturnsPctEst |-> return_pct,
         MomentumPct   |-> momentum,
         New           |-> WatchlistNewFlag(age_days, params.new_age_days),
         Note          |-> WatchlistNote(tag, return_pct, params.high_return_pct),
         RTOQty        |-> rto_qty,
         ReturnQty     |-> returns_qty - rto_qty]

(* a builder without the test for a missing sales table: the first read of
   self.sales_raw['StyleKey'] on None is a TypeError *)
BuildWatchlist30dUnguarded ==
    /\ Called
    /\ IF sales_raw.isNone \/ DownstreamRaises
       THEN /\ ret' = Raised("build_watchlist_30d", NoArg,
                             IF sales_raw.isNone THEN "TypeError" ELSE "KeyError")
            /\ UNCHANGED watchlist_30d
       ELSE /\ watchlist_30d' =
                    Table([i \in 1..Len(DownstreamStyles) |->
                              WatchlistRow(DownstreamStyles[i])])
            /\ ret' = Returned("build_watchlist_30d", NoArg, watchlist_30d')
    /\ UNCHANGED <<params, sales_raw, returns_raw, catalog_raw,
                   master_styles, forecast>>

BuildWatchlist30d ==
    /\ Called
    /\ IF sales_raw.isNone
       THEN /\ ret' = Returned("build_watchlist_30d", NoArg, EmptyFrame)
            /\ UNCHANGED watchlist_30d
       ELSE IF DownstreamRaises
       THEN /\ ret' = Raised("build_watchlist_30d", NoArg, "KeyError")
            /\ UNCHANGED watchlist_30d
       ELSE /\ watchlist_30d' =
                    Table([i \in 1..Len(DownstreamStyles) |->
                              WatchlistRow(DownstreamStyles[i])])
            /\ ret' = Returned("build_watchlist_30d", NoArg, watchlist_30d')
    /\ UNCHANGED <<params, sales_raw, returns_raw, catalog_raw,
                   master_styles, forecast>>

(***************************************************************************)
(* ProjectMProcessor.build_returns_type_split                              *)
(***************************************************************************)
ReturnsSplitRow(style) ==
    LET in_window == RecentReturns(style.StyleKey, params.return_window_days)
        rto_qty == SumSeq(Column(SelectSeq(in_window, LAMBDA r : IsRto(r.ReturnType)),
                                 "UnitsReturned"))
        return_qty == SumSeq(Column(SelectSeq(in_window, LAMBDA r : ~IsRto(r.ReturnType)),
                                    "UnitsReturned"))
    IN  [StyleID      |-> style.StyleID,
         RTOQty       |-> rto_qty,
         ReturnQty    |-> return_qty,
         TotalReturns |-> rto_qty + return_qty,
         RTOPct       |-> Divide(rto_qty, rto_qty + return_qty),
         ReturnPct    |-> Divide(return_qty, rto_qty + return_qty)]

(* rows are skipped when the style has no return in the window or they sum to 0 *)
ReturnsSplitKept(style) ==
    /\ RecentReturns(style.StyleKey, params.return_window_days) # <<>>
    /\ ReturnsSplitRow(style).TotalReturns # 0

MasterStylesRows ==
    [i \in 1..Len(master_styles.rows) |->
        [StyleID  |-> master_styles.rows[i].StyleID,
         StyleKey |-> master_styles.rows[i].StyleKey]]

BuildReturnsTypeSplit ==
    /\ Called
    /\ IF returns_raw.isNone \/ master_styles.isNone
       THEN ret' = Returned("build_returns_type_split", NoArg, EmptyFrame)
       ELSE IF DownstreamRaises
       THEN ret' = Raised("build_returns_type_split", NoArg, "KeyError")
       ELSE LET kept == SelectSeq(MasterStylesRows, ReturnsSplitKept)
            IN  ret' = Returned("build_returns_type_split", NoArg,
                         Table([i \in 1..Len(kept) |-> ReturnsSplitRow(kept[i])]))
    /\ UNCHANGED <<params, sales_raw, returns_raw, catalog_raw,
                   master_styles, watchlist_30d, forecast>>

(***************************************************************************)
(* ProjectMProcessor.get_kpis                                              *)
(***************************************************************************)
KpiWindowDays == 30

RecentSales ==
    SelectSeq(sales_raw.rows,
              LAMBDA r : InRecent(r.OrderDate, params.today, KpiWindowDays))

KpiReturnsQty ==
    SumSeq(Column(SelectSeq(returns_raw.rows,
                            LAMBDA r : InRecent(r.ReturnDate, params.today,
                                                KpiWindowDays)),
                  "UnitsReturned"))

(* lines 740-748 *)
KpiReturnPct(total_orders) ==
    IF ~returns_raw.isNone
    THEN IF total_orders > 0 THEN Divide(KpiReturnsQty, total_orders) ELSE IntRatio(0)
    ELSE IntRatio(0)

ActiveStyles ==
    IF master_styles.isNone THEN 0
    ELSE Len(SelectSeq(master_styles.rows, LAMBDA r : r.Status = "Active"))

GetKpis ==
    /\ Called
    /\ IF sales_raw.isNone
       THEN ret' = Returned("get_kpis", NoArg, [empty |-> TRUE])
       ELSE ret' = Returned("get_kpis", NoArg,
                     [empty            |-> FALSE,
                      total_orders_30d |-> Len(RecentSales),
                      total_gmv_30d    |-> SumSeq(Column(RecentSales, "NetGMV")),
                      return_pct_30d   |-> KpiReturnPct(Len(RecentSales)),
                      active_styles    |-> ActiveStyles,
                      date_from        |-> params.today - KpiWindowDays,
                      date_to          |-> params.today])
    /\ UNCHANGED <<params, sales_raw, returns_raw, catalog_raw,
                   master_styles, watchlist_30d, forecast>>

(***************************************************************************)
(* KPICalculator (src/kpi_calculator.py), called on the processor's tables *)
(* with today_date = params.today.                                         *)
(***************************************************************************)
(* mask = OrderDateNum >= today_num - 30; RowUnit summed *)
kpi_total_orders_30d(sales_df, today_date) ==
    IF sales_df.isNone \/ Len(sales_df.rows) = 0 THEN 0
    ELSE LET today_num == today_date + ExcelOffset
         IN  SumSeq(Column(SelectSeq(sales_df.rows,
                                     LAMBDA r : r.OrderDateNum >= today_num - 30),
                           "RowUnit"))

kpi_return_pct_30d(sales_df, returns_df, today_date) ==
    LET orders == kpi_total_orders_30d(sales_df, today_date)
    IN  IF returns_df.isNone \/ Len(returns_df.rows) = 0 \/ orders = 0
        THEN IntRatio(0)
        ELSE LET today_num == today_date + ExcelOffset
                 returns == SumSeq(Column(SelectSeq(returns_df.rows,
                                LAMBDA r : r.ReturnDateNum >= today_num - 30),
                                "UnitsReturned"))
             IN  Divide(returns, orders)

KpiTotalOrders30d ==
    /\ Called
    /\ ret' = Returned("kpi_total_orders_30d", NoArg,
                       [total |-> kpi_total_orders_30d(sales_raw, params.today)])
    /\ UNCHANGED <<params, sales_raw, returns_raw, catalog_raw,
                   master_styles, watchlist_30d, forecast>>

KpiReturnPct30d ==
    /\ Called
    /\ ret' = Returned("kpi_return_pct_30d", NoArg,
                       [pct |-> kpi_return_pct_30d(sales_raw, returns_raw, params.today)])
    /\ UNCHANGED <<params, sales_raw, returns_raw, catalog_raw,
                   master_styles, watchlist_30d, forecast>>


(***************************************************************************)
(* ProjectMProcessor.build_inventory_forecast.  The rounding of the shown  *)
(* figures, Safety Stock and Total Required (a square root) are left out.  *)
(***************************************************************************)
RatioMul(a, b) == Ratio(a.num * b.num, a.den * b.den)
RatioAdd(a, b) == Ratio(a.num * b.den + b.num * a.den, a.den * b.den)
RatioSub(a, b) == Ratio(a.num * b.den - b.num * a.den, a.den * b.den)
RatioMin(a, b) == IF RatioLt(b, a) THEN b ELSE a
RatioMax(a, b) == IF RatioGt(b, a) THEN b ELSE a

LookbackSales(style_key) ==
    SelectSeq(sales_raw.rows, LAMBDA r :
        r.StyleKey = style_key
        /\ InRecent(r.OrderDate, params.today, params.forecast_lookback_days))

(* the style's first watchlist row by 'Style ID', 0 when there is none *)
WatchlistMomentum(style_id) ==
    IF ~params.use_momentum_adjust \/ watchlist_30d.isNone THEN IntRatio(0)
    ELSE LET w == SelectSeq(watchlist_30d.rows, LAMBDA r : r.StyleID = style_id)
         IN  IF w = <<>> THEN IntRatio(0) ELSE w[1].MomentumPct

(* a faulty adjustment: the momentum is not capped *)
MomentumAdjUncapped(momentum) == momentum

(* max(min(momentum, 0.5), -0.3) *)
MomentumAdj(momentum) == RatioMax(RatioMin(momentum, Ratio(5, 10)), Ratio(-3, 10))

GrossForecast(avg_daily, momentum) ==
    LET base_forecast == RatioMul(RatioMul(avg_daily, IntRatio(params.event_days)),
                                  params.traffic_multiplier)
    IN  IF params.use_momentum_adjust
        THEN RatioMul(base_forecast, RatioAdd(IntRatio(1), MomentumAdj(momentum)))
        ELSE base_forecast

ForecastRow(style) ==
    LET avg_daily == Divide(Len(LookbackSales(style.StyleKey)),
                            params.forecast_lookback_days)
        gross_forecast == GrossForecast(avg_daily, WatchlistMomentum(style.StyleID))
    IN  [StyleID       |-> style.StyleID,
         AvgDailySales |-> avg_daily,
         GrossForecast |-> gross_forecast,
         NetForecast   |-> RatioMul(gross_forecast,
                                    RatioSub(IntRatio(1), params.forecast_return_rate)),
         LeadTime      |-> params.leadtime_days,
         ServiceLevel  |-> params.service_level]

(* a forecast that skips no style *)
ForecastKeptAll(style) == TRUE
(* if style_sales.empty: continue *)
ForecastKept(style) == LookbackSales(style.StyleKey) # <<>>

BuildInventoryForecast ==
    /\ Called
    /\ IF sales_raw.isNone
       THEN /\ ret' = Returned("build_inventory_forecast", NoArg, EmptyFrame)
            /\ UNCHANGED forecast
       ELSE IF DownstreamRaises
       THEN /\ ret' = Raised("build_inventory_forecast", NoArg, "KeyError")
            /\ UNCHANGED forecast
       ELSE LET kept == SelectSeq(DownstreamStyles, ForecastKept)
            IN  /\ forecast' = Table([i \in 1..Len(kept) |-> ForecastRow(kept[i])])
                /\ ret' = Returned("build_inventory_forecast", NoArg, forecast')
    /\ UNCHANGED <<params, sales_raw, returns_raw, catalog_raw,
                   master_styles, watchlist_30d>>

(***************************************************************************)
(* BusinessCalculations.calculate_inventory_forecast                       *)
(* (src/utils/calculations.py).  safety_stock and total_required (a square *)
(* root) are left out.                                                     *)
(***************************************************************************)
calculate_inventory_forecast(avg_daily_sales, event_days, traffic_multiplier, return_rate, momentum, use_momentum) ==
    LET base == RatioMul(RatioMul(avg_daily_sales, IntRatio(event_days)),
                         traffic_multiplier)
        gross_forecast == IF use_momentum
                          THEN RatioMul(base, RatioAdd(IntRatio(1),
                                                       MomentumAdj(momentum)))
                          ELSE base
    IN  [gross_forecast |-> gross_forecast,
         net_forecast   |-> RatioMul(gross_forecast,
                                     RatioSub(IntRatio(1), return_rate))]

CalculateInventoryForecast(avg_daily_sales, momentum, use_momentum) ==
    /\ Called
    /\ ret' = Returned("calculate_inventory_forecast",
                       [avg_daily_sales    |-> avg_daily_sales,
                        event_days         |-> params.event_days,
                        traffic_multiplier |-> params.traffic_multiplier,
                        return_rate        |-> params.forecast_return_rate,
                        momentum           |-> momentum,
                        use_momentum       |-> use_momentum],
                       calculate_inventory_forecast(
                           avg_daily_sales, params.event_days,
                           params.traffic_multiplier, params.forecast_return_rate,
                           momentum, use_momentum))
    /\ UNCHANGED <<params, sales_raw, returns_raw, catalog_raw,
                   master_styles, watchlist_30d, forecast>>

(***************************************************************************)
(* BusinessCalculations.calculate_momentum (src/utils/calculations.py)     *)
(***************************************************************************)
calculate_momentum(orders_recent, orders_prev) ==
    IF orders_prev = 0
    THEN IF orders_recent > 0 THEN IntRatio(1) ELSE IntRatio(0)
    ELSE Divide(orders_recent - orders_prev, orders_prev)

CalculateMomentum(orders_recent, orders_prev) ==
    /\ Called
    /\ ret' = Returned("calculate_momentum", <<orders_recent, orders_prev>>,
                       [momentum |-> calculate_momentum(orders_recent, orders_prev)])
    /\ UNCHANGED <<params, sales_raw, returns_raw, catalog_raw,
                   master_styles, watchlist_30d, forecast>>

(***************************************************************************)
(* DataImporters.import_sales_csv (src/data_importers.py), the static      *)
(* importer beside the processor.  A role goes to the first column whose   *)
(* lowered header contains one of the role's candidates.                   *)
(***************************************************************************)
date_candidates == sales_date_patterns
style_candidates == sales_style_patterns
qty_candidates ==
    << <<"q", "t", "y">>,
       <<"q", "u", "a", "n", "t", "i", "t", "y">>,
       <<"u", "n", "i", "t", "s">>,
       <<"o", "r", "d", "e", "r", " ", "q", "t", "y">>,
       <<"q", "t", "y", " ", "o", "r", "d", "e", "r", "e", "d">>,
       <<"o", "r", "d", "e", "r", "e", "d", " ", "q", "t", "y">>,
       <<"i", "t", "e", "m", " ", "q", "t", "y">> >>
price_candidates == SubSeq(sales_price_patterns, 1, 8)
fallback_date_words == << <<"d", "a", "t", "e">> >>
fallback_style_words == << <<"s", "t", "y", "l", "e">>,
                           <<"p", "r", "o", "d", "u", "c", "t">> >>
gmv_words == << <<"g", "m", "v">> >>

(* any(candidate in col_lower for candidate in candidates) *)
ContainsAny(col, candidates) ==
    \E i \in 1..Len(candidates) : Contains(Lower(col), candidates[i])

(* the first column, in file order, that contains a candidate; 0 for None *)
FirstColumnContaining(columns, candidates) ==
    FirstIndex({i \in 1..Len(columns) : ContainsAny(columns[i], candidates)})

ImporterMapping(df) ==
    LET date_col == FirstColumnContaining(df.columns, date_candidates)
        style_col == FirstColumnContaining(df.columns, style_candidates)
    IN  [date_col  |-> IF date_col # 0 THEN date_col
                       ELSE FirstColumnContaining(df.columns, fallback_date_words),
         style_col |-> IF style_col # 0 THEN style_col
                       ELSE FirstColumnContaining(df.columns, fallback_style_words),
         qty_col   |-> FirstColumnContaining(df.columns, qty_candidates),
         price_col |-> FirstColumnContaining(df.columns, price_candidates)]

(* str(x).strip().lower() if pd.notna(x) else '' *)
ImporterStyleKey(value) == IF value = NaN THEN <<>> ELSE Lower(Strip(value))

ImporterNetUnits(row, m) ==
    IF m.qty_col # 0 THEN FillNa(ToNumeric(row[m.qty_col]), 1) ELSE 1

ImporterSalesRecord(df, row, m) ==
    LET gmv_col == FirstColumnContaining(df.columns, gmv_words)
    IN  [OrderDate    |-> row[m.date_col].d,
         OrderDateNum |-> IF row[m.date_col].d # NaT THEN row[m.date_col].d ELSE 0,
         StyleKey     |-> ImporterStyleKey(row[m.style_col].s),
         NetUnits     |-> ImporterNetUnits(row, m),
         RowUnit      |-> 1,
         NetGMV       |-> IF m.price_col # 0
                          THEN ImporterNetUnits(row, m)
                               * FillNa(ToNumeric(row[m.price_col]), 0)
                          ELSE IF gmv_col # 0
                          THEN FillNa(ToNumeric(row[gmv_col]), 0)
                          ELSE 0]

DataImportersImportSalesCsv(df) ==
    /\ Called
    /\ LET m == ImporterMapping(df)
       IN  ret' = IF m.date_col = 0 \/ m.style_col = 0
                  THEN Raised("DataImporters.import_sales_csv", df, "ValueError")
                  ELSE Returned("DataImporters.import_sales_csv", df,
                           [data    |-> [i \in 1..Len(df.rows) |->
                                            ImporterSalesRecord(df, df.rows[i], m)],
                            mapping |-> m])
    /\ UNCHANGED <<params, sales_raw, returns_raw, catalog_raw,
                   master_styles, watchlist_30d, forecast>>

(***************************************************************************)
(* MasterTableBuilder.build_master_table (src/master_table.py), the static *)
(* builder beside the processor, called on the processor's tables and      *)
(* parameter dict.                                                         *)
(***************************************************************************)
builder_style_words ==
    << <<"s", "t", "y", "l", "e">>,
       <<"p", "r", "o", "d", "u", "c", "t">>,
       <<"c", "o", "d", "e">>,
       <<"i", "d">> >>

(* str(style).strip().lower() *)
BuilderStyleKey(style) == Lower(Strip(style))

BuilderCatalogStyles ==
    IF catalog_raw.isNone \/ Len(catalog_raw.rows) = 0 THEN <<>>
    ELSE LET c == FirstColumnContaining(catalog_raw.columns, builder_style_words)
         IN  IF c = 0 THEN <<>>
             ELSE LET u == Unique(DropNa([i \in 1..Len(catalog_raw.rows) |->
                                            catalog_raw.rows[i][c].s]))
                  IN  [i \in 1..Len(u) |->
                          [StyleID |-> u[i], StyleKey |-> BuilderStyleKey(u[i])]]

(* master_rows: the catalog's styles, the sales keys when there are none *)
BuilderMasterRows ==
    IF BuilderCatalogStyles # <<>> THEN BuilderCatalogStyles ELSE SalesStyles

(* params.get('zero_sale_age', 14) *)
BuilderZeroAge ==
    IF "zero_sale_age" \in DOMAIN params THEN params["zero_sale_age"] ELSE 14

(* the chain of lines 82-92; first_order is not NaT here *)
BuilderStatus(first_order, orders, today, zero_age) ==
    IF first_order = NoneVal THEN "Catalog-Only"
    ELSE IF orders = 0 /\ today - first_order >= zero_age THEN "Zero-Sale"
    ELSE IF today - first_order <= 60 THEN "New"
    ELSE IF orders > 0 THEN "Active"
    ELSE "Unknown"

BuilderRow(style) ==
    LET style_key == style.StyleKey
        has_sales == ~sales_raw.isNone /\ Len(sales_raw.rows) > 0
        has_returns == ~returns_raw.isNone /\ Len(returns_raw.rows) > 0
        orders == IF has_sales
                  THEN SumSeq(Column(StyleSales(style_key), "NetUnits")) ELSE 0
        gmv == IF has_sales
               THEN SumSeq(Column(StyleSales(style_key), "NetGMV")) ELSE 0
        first_order == IF has_sales THEN FirstOrder(style_key) ELSE NoneVal
        last_order == IF has_sales THEN LastOrder(style_key) ELSE NoneVal
        units_returned == IF has_returns THEN StyleUnitsReturned(style_key) ELSE 0
        return_pct == StyleReturnPct(units_returned, orders)
    IN  [StyleID                |-> style.StyleID,
         FirstUpdated           |-> first_order,
         Days_Since_FirstUpdate |-> IF first_order = NoneVal THEN NoneVal
                                    ELSE params.today - first_order,
         Newness_Bucket         |-> MasterBucket(first_order, params.today),
         Orders                 |-> orders,
         GMV                    |-> gmv,
         FirstOrderDate         |-> first_order,
         LastOrderDate          |-> last_order,
         UnitsReturned          |-> units_returned,
         ReturnPct              |-> return_pct,
         Status                 |-> BuilderStatus(first_order, orders, params.today,
                                                  BuilderZeroAge),
         RiskFlag               |-> MasterRiskFlag(return_pct, params.high_return_pct)]

(* today_date - first_order.date() with first_order = NaT *)
BuilderRaises ==
    /\ ~sales_raw.isNone
    /\ \E i \in 1..Len(BuilderMasterRows) :
          FirstOrder(BuilderMasterRows[i].StyleKey) = NaT

MasterTableBuilderBuild ==
    /\ Called
    /\ ret' = IF BuilderMasterRows = <<>>
              THEN Returned("MasterTableBuilder.build_master_table", NoArg, EmptyFrame)
              ELSE IF BuilderRaises
              THEN Raised("MasterTableBuilder.build_master_table", NoArg, "TypeError")
              ELSE Returned("MasterTableBuilder.build_master_table", NoArg,
                            Table([i \in 1..Len(BuilderMasterRows) |->
                                      BuilderRow(BuilderMasterRows[i])]))
    /\ UNCHANGED <<params, sales_raw, returns_raw, catalog_raw,
                   master_styles, watchlist_30d, forecast>>

(***************************************************************************)
(* _normalize_style_id called on a value and again on what it returned.    *)
(* ret.value.key holds the value the next call is made on.                 *)
(***************************************************************************)
NormalizeStyleIdCall ==
    /\ Called
    /\ ret' = Returned("_normalize_style_id", ret.value.key,
                       [key |-> NormalizeStyleId(ret.value.key)])
    /\ UNCHANGED <<params, sales_raw, returns_raw, catalog_raw,
                   master_styles, watchlist_30d, forecast>>

(***************************************************************************)
(* The files a user uploads.                                               *)
(***************************************************************************)
(* a cell pd.to_datetime reads as day d; its text is not looked at *)
DateCell(d) == [s |-> <<"#">>, d |-> d]
(* a cell holding text t, which is no date *)
TextCell(t) == [s |-> t, d |-> NaT]

SalesColumns == <<H_OrderDate, H_StyleID, H_Price>>
ReturnsColumns == <<H_ReturnDate, H_StyleID, H_Qty, H_Status>>
CatalogColumns == <<H_Listed, H_StyleID>>

(* one sale of style id on day d (NaT: a date that does not parse) *)
Sale(d, id) == <<DateCell(d), TextCell(id), TextCell(<<"5">>)>>
(* qty units of style id sent back on day d *)
Return(d, id, qty, type) == <<DateCell(d), TextCell(id), TextCell(qty), TextCell(type)>>
(* a catalog line: style id, listed 20 days ago *)
Listing(id) == <<DateCell(Today - 20), TextCell(id)>>

(* Sales files of the master-table sessions: styles 45 and 61 days old, dates
   that do not parse, a file without a date column. *)
MasterSalesFrames ==
    {Frame(<<H_StyleID, H_Price>>, <<>>),
     Frame(SalesColumns, <<>>),
     Frame(SalesColumns, <<Sale(Today - 45, <<"A">>)>>),
     Frame(SalesColumns, <<Sale(Today - 45, <<"A">>), Sale(Today - 45, <<"A">>)>>),
     Frame(SalesColumns, <<Sale(Today - 61, <<"b">>)>>),
     Frame(SalesColumns, <<Sale(Today - 45, <<"A">>), Sale(Today - 61, <<"b">>)>>),
     Frame(SalesColumns, <<Sale(NaT, <<"A">>)>>),
     Frame(SalesColumns, <<Sale(Today - 45, <<"A">>), Sale(NaT, <<"A">>)>>)}

MasterReturnsFrames ==
    {Frame(ReturnsColumns, <<>>),
     Frame(ReturnsColumns, <<Return(Today - 10, <<"a">>, <<"1">>, H_RTO)>>)}

(* Catalogs: without a style column, empty, one style, two identifiers of
   one style, two styles. *)
CatalogFrames ==
    {Frame(<<H_Listed>>, <<<<DateCell(Today - 20)>>>>),
     Frame(CatalogColumns, <<>>),
     Frame(CatalogColumns, <<Listing(<<"A">>)>>),
     Frame(CatalogColumns, <<Listing(<<"A">>), Listing(<<"a">>)>>),
     Frame(CatalogColumns, <<Listing(<<"A">>), Listing(<<"b">>)>>)}

(* "zero_sale_age" is the name MasterTableBuilder reads; the processor's
   dict has no such key *)
MasterParamUpdates ==
    {<<"high_return_pct", Ratio(1, 2)>>, <<"new_age_days", 30>>,
     <<"zero_sale_age_days", 50>>, <<"forecast_lookback_days", 50>>,
     <<"zero_sale_age", 7>>}

MasterSalesImports == {import_sales_csv(df) : df \in MasterSalesFrames}
MasterReturnsImports == {import_returns_csv(df) : df \in MasterReturnsFrames}

(* Sales files of the KPI and watchlist sessions: dates on both sides of the
   ends of the 30-day KPI window and of the watchlist's two windows. *)
KpiSalesFrames ==
    {Frame(SalesColumns, <<Sale(Today - 40, <<"a">>), Sale(Today - 10, <<"a">>),
                           Sale(Today - 5, <<"a">>)>>),
     Frame(SalesColumns, <<Sale(Today, <<"a">>), Sale(Today - 30, <<"a">>)>>),
     Frame(SalesColumns, <<Sale(Today + 1, <<"a">>), Sale(Today - 31, <<"a">>)>>),
     Frame(SalesColumns, <<Sale(Today - 7, <<"a">>), Sale(Today - 8, <<"a">>)>>),
     Frame(SalesColumns, <<Sale(Today - 14, <<"a">>), Sale(Today - 15, <<"a">>),
                           Sale(Today - 8, <<"b">>)>>),
     Frame(SalesColumns, <<Sale(Today - 1, <<"a">>), Sale(Today - 2, <<"a">>),
                           Sale(Today - 8, <<"a">>)>>),
     Frame(SalesColumns, <<Sale(Today - 60, <<"a">>), Sale(Today - 61, <<"a">>)>>),
     Frame(SalesColumns, <<Sale(Today - 1, <<"a">>), Sale(Today - 2, <<"a">>),
                           Sale(Today - 3, <<"a">>)>>),
     Frame(SalesColumns, <<Sale(NaT, <<"a">>)>>)}

KpiReturnsFrames ==
    {Frame(ReturnsColumns, <<>>),
     Frame(ReturnsColumns, <<Return(Today - 3, <<"a">>, <<"1">>, H_RTO)>>),
     Frame(ReturnsColumns, <<Return(Today - 10, <<"a">>, <<"2">>, H_Refund)>>)}

KpiCatalogFrames ==
    {Frame(CatalogColumns, <<Listing(<<"a">>), Listing(<<"z">>)>>)}

KpiParamUpdates == {<<"report_window_days", 30>>, <<"report_window_days", 1>>}

KpiSalesImports == {import_sales_csv(df) : df \in KpiSalesFrames}
KpiReturnsImports == {import_returns_csv(df) : df \in KpiReturnsFrames}

(* Files of the import sessions: headers the detectors bind or miss, with
   and without a quantity column. *)
ImportSalesFrames ==
    {Frame(<<H_OrderDate, H_StyleID>>,
           << <<DateCell(Today - 5), TextCell(<<"A">>)>>,
              <<DateCell(Today - 6), TextCell(<<" ", "a">>)>> >>),
     Frame(<<H_OrderDate, H_StyleID, H_Qty>>,
           << <<DateCell(Today - 5), TextCell(<<"A">>), TextCell(<<"3">>)>> >>),
     Frame(<<H_OrderDate, H_StyleID, H_Qty>>,
           << <<DateCell(Today - 5), TextCell(<<"A">>), TextCell(<<"3">>)>>,
              <<DateCell(Today - 6), TextCell(<<"b">>), TextCell(<<"x">>)>> >>),
     Frame(<<H_MyntraOrderDate, H_StyleID>>,
           << <<DateCell(Today - 5), TextCell(<<"A">>)>> >>),
     Frame(<<H_Date, H_OrderDate, H_StyleID>>,
           << <<DateCell(Today - 9), DateCell(Today - 5), TextCell(<<"A">>)>> >>),
     Frame(<<H_OrderDate, H_Price>>,
           << <<DateCell(Today - 5), TextCell(<<"5">>)>> >>),
     Frame(<<H_StyleID, H_Qty>>,
           << <<TextCell(<<"A">>), TextCell(<<"3">>)>> >>)}

ImportReturnsFrames ==
    {Frame(<<H_ReturnDate, H_StyleID>>,
           << <<DateCell(Today - 3), TextCell(<<"A">>)>> >>),
     Frame(ReturnsColumns, <<Return(Today - 3, <<"a">>, <<"2">>, H_RTO)>>),
     Frame(<<H_StyleID, H_Qty>>,
           << <<TextCell(<<"A">>), TextCell(<<"2">>)>> >>),
     Frame(<<H_ReturnDate, H_Qty, H_Status>>,
           << <<DateCell(Today - 3), TextCell(<<"2">>), TextCell(H_RTO)>> >>)}

ImportSalesImports == {import_sales_csv(df) : df \in ImportSalesFrames}
ImportReturnsImports == {import_returns_csv(df) : df \in ImportReturnsFrames}

(* The scalars a style cell can hold, as the text str() gives for them: the
   null, and every text of up to MaxIdLen characters out of a blank, a
   letter in both cases, two digits and the point (so " A ", "1.0", "01",
   ".0", "1." and "a.0" are among them). *)
MaxIdLen == 3
IdChars == {" ", "A", "a", "0", "1", "."}
RECURSIVE TextsOfLen(_)
TextsOfLen(n) ==
    IF n = 0 THEN {<<>>}
    ELSE {Append(t, c) : t \in TextsOfLen(n - 1), c \in IdChars}
StyleIdValues == {NaN} \cup UNION {TextsOfLen(n) : n \in 0..MaxIdLen}

(* Files of the key sessions: one style written "1", "1.0" and " 1", another
   written "A" and " a". *)
KeySalesFrames ==
    {Frame(SalesColumns, <<Sale(Today - 5, <<"1">>)>>),
     Frame(SalesColumns, <<Sale(Today - 5, <<"1", ".", "0">>),
                           Sale(Today - 6, <<" ", "a">>)>>),
     Frame(SalesColumns, <<Sale(Today - 5, <<"A">>)>>)}

KeyReturnsFrames ==
    {Frame(ReturnsColumns, <<Return(Today - 3, <<" ", "1">>, <<"1">>, H_RTO)>>),
     Frame(ReturnsColumns, <<Return(Today - 3, <<"a">>, <<"1">>, H_Refund)>>)}

KeyCatalogFrames ==
    {Frame(CatalogColumns, <<Listing(<<"1">>)>>),
     Frame(CatalogColumns, <<Listing(<<"1", ".", "0">>)>>),
     Frame(CatalogColumns, <<Listing(<<"A">>)>>),
     Frame(CatalogColumns, <<Listing(<<" ", "a">>)>>)}

KeySalesImports == {import_sales_csv(df) : df \in KeySalesFrames}
KeyReturnsImports == {import_returns_csv(df) : df \in KeyReturnsFrames}

(* Sales files of the forecast sessions, all of style "a": three sales this
   week and none the week before (momentum 1), one against three (-2/3), one
   against one (0), five against four (1/4), and one sale 20 days ago. *)
ForecastSalesFrames ==
    {Frame(SalesColumns, <<Sale(Today - 1, <<"a">>), Sale(Today - 2, <<"a">>),
                           Sale(Today - 3, <<"a">>)>>),
     Frame(SalesColumns, <<Sale(Today - 1, <<"a">>), Sale(Today - 8, <<"a">>),
                           Sale(Today - 9, <<"a">>), Sale(Today - 10, <<"a">>)>>),
     Frame(SalesColumns, <<Sale(Today - 1, <<"a">>), Sale(Today - 8, <<"a">>)>>),
     Frame(SalesColumns, <<Sale(Today - 1, <<"a">>), Sale(Today - 2, <<"a">>),
                           Sale(Today - 3, <<"a">>), Sale(Today - 4, <<"a">>),
                           Sale(Today - 5, <<"a">>), Sale(Today - 8, <<"a">>),
                           Sale(Today - 9, <<"a">>), Sale(Today - 10, <<"a">>),
                           Sale(Today - 11, <<"a">>)>>),
     Frame(SalesColumns, <<Sale(Today - 20, <<"a">>)>>)}

ForecastParamUpdates == {<<"use_momentum_adjust", FALSE>>}

(* arguments of calculate_inventory_forecast: daily averages of a 30-day
   lookback, and momenta below, at, between and above the two caps *)
ForecastAverages == {Ratio(0, 30), Ratio(1, 30), Ratio(4, 30)}
ForecastMomenta ==
    {Ratio(-1, 1), Ratio(-3, 10), Ratio(-1, 10), Ratio(0, 1), Ratio(1, 4),
     Ratio(1, 2), Ratio(1, 1), Ratio(2, 1)}

ForecastSalesImports == {import_sales_csv(df) : df \in ForecastSalesFrames}

(* Files of the sessions with unnamed styles: rows whose style cell is empty
   (NaN after pd.read_csv) beside rows of style "a", and a catalog line
   whose identifier is two blanks. *)
UnnamedSalesFrames ==
    {Frame(SalesColumns, <<Sale(Today - 5, <<"a">>), Sale(Today - 6, NaN)>>),
     Frame(SalesColumns, <<Sale(Today - 5, NaN)>>),
     Frame(SalesColumns, <<Sale(Today - 5, <<"a">>)>>)}

UnnamedReturnsFrames ==
    {Frame(ReturnsColumns, <<Return(Today - 3, NaN, <<"1">>, H_RTO)>>),
     Frame(ReturnsColumns, <<Return(Today - 3, <<"a">>, <<"1">>, H_Refund)>>)}

UnnamedCatalogFrames ==
    {Frame(CatalogColumns, <<Listing(<<" ", " ">>), Listing(<<"a">>)>>),
     Frame(CatalogColumns, <<Listing(NaN)>>)}

UnnamedSalesImports == {import_sales_csv(df) : df \in UnnamedSalesFrames}
UnnamedReturnsImports == {import_returns_csv(df) : df \in UnnamedReturnsFrames}

(***************************************************************************)
(* Sessions.                                                               *)
(***************************************************************************)
(* uploads, parameter changes and the report builders *)
Next ==
    \/ \E o \in MasterSalesImports : ImportSalesCsv(o)
    \/ \E o \in MasterReturnsImports : ImportReturnsCsv(o)
    \/ \E df \in CatalogFrames : LoadCatalog(df)
    \/ \E u \in MasterParamUpdates : UpdateParameter(u[1], u[2])
    \/ BuildMasterTable
    \/ BuildWatchlist30d
    \/ BuildReturnsTypeSplit
    \/ BuildInventoryForecast

Spec == Init /\ [][Next]_vars

(* uploads, the report window, the KPIs and the watchlist *)
NextKpi ==
    \/ \E o \in KpiSalesImports : ImportSalesCsv(o)
    \/ \E o \in KpiReturnsImports : ImportReturnsCsv(o)
    \/ \E df \in KpiCatalogFrames : LoadCatalog(df)
    \/ \E u \in KpiParamUpdates : UpdateParameter(u[1], u[2])
    \/ GetKpis
    \/ KpiTotalOrders30d
    \/ KpiReturnPct30d
    \/ BuildMasterTable
    \/ BuildWatchlist30d
    \/ \E r, p \in 0..MaxOrders : CalculateMomentum(r, p)

SpecKpi == Init /\ [][NextKpi]_vars

(* uploads through the processor and through DataImporters, and the master
   table built from what was stored *)
NextImport ==
    \/ \E o \in ImportSalesImports : ImportSalesCsv(o)
    \/ \E o \in ImportReturnsImports : ImportReturnsCsv(o)
    \/ \E df \in ImportSalesFrames : DataImportersImportSalesCsv(df)
    \/ BuildMasterTable

SpecImport == Init /\ [][NextImport]_vars

(* uploads of one style under several spellings, and both master builders *)
NextKeys ==
    \/ \E o \in KeySalesImports : ImportSalesCsv(o)
    \/ \E o \in KeyReturnsImports : ImportReturnsCsv(o)
    \/ \E df \in KeyCatalogFrames : LoadCatalog(df)
    \/ BuildMasterTable
    \/ MasterTableBuilderBuild

SpecKeys == Init /\ [][NextKeys]_vars

(* sales uploads, the momentum switch, the watchlist and the forecast *)
NextForecast ==
    \/ \E o \in ForecastSalesImports : ImportSalesCsv(o)
    \/ \E u \in ForecastParamUpdates : UpdateParameter(u[1], u[2])
    \/ BuildWatchlist30d
    \/ BuildInventoryForecast
    \/ \E avg \in ForecastAverages, m \in ForecastMomenta, use \in BOOLEAN :
          CalculateInventoryForecast(avg, m, use)

SpecForecast == Init /\ [][NextForecast]_vars

(* uploads with unnamed styles and the three builders that aggregate by key *)
NextUnnamed ==
    \/ \E o \in UnnamedSalesImports : ImportSalesCsv(o)
    \/ \E o \in UnnamedReturnsImports : ImportReturnsCsv(o)
    \/ \E df \in UnnamedCatalogFrames : LoadCatalog(df)
    \/ BuildMasterTable
    \/ BuildWatchlist30d
    \/ BuildInventoryForecast

SpecUnnamed == Init /\ [][NextUnnamed]_vars

(* a fresh processor and a scalar from a style cell; the normaliser is
   applied to it, then to its own result *)
InitNormalize ==
    /\ params = DefaultParams
    /\ sales_raw = NoneTable
    /\ returns_raw = NoneTable
    /\ catalog_raw = NoneFrame
    /\ master_styles = NoneTable
    /\ watchlist_30d = NoneTable
    /\ forecast = NoneTable
    /\ \E value \in StyleIdValues :
          ret = [op |-> "__init__", arg |-> NoArg, raised |-> "",
                 value |-> [key |-> value]]
    /\ calls = 0

NextNormalize == NormalizeStyleIdCall

SpecNormalize == InitNormalize /\ [][NextNormalize]_vars

(***************************************************************************)
(* The master table.                                                       *)
(***************************************************************************)
(* The last call was a build_master_table that stored its table, so the raw
   tables and parameters of the state are the ones it read. *)
MasterBuilt ==
    /\ ret.op = "build_master_table"
    /\ ret.raised = ""
    /\ ret.value.rows # <<>>

(* the StyleKey the builder joined a stored row by *)
RowKey(row) == NormalizeStyleId(row.StyleID)

SalesKeys ==
    IF sales_raw.isNone THEN {}
    ELSE {sales_raw.rows[i].StyleKey : i \in 1..Len(sales_raw.rows)}

CatalogKeys == {CatalogStyles[i].StyleKey : i \in 1..Len(CatalogStyles)}

SalesOf(key) == {i \in 1..Len(sales_raw.rows) : sales_raw.rows[i].StyleKey = key}

Downstream ==
    {"build_watchlist_30d", "build_returns_type_split", "build_inventory_forecast"}

(* C1: every row of the stored master table carries StyleKey, and with a
   master table stored a call of build_watchlist_30d,
   build_returns_type_split or build_inventory_forecast on loaded data
   completes instead of failing on the missing column. *)
C1_MasterRowsCarryStyleKey ==
    /\ \A i \in 1..Len(master_styles.rows) :
            "StyleKey" \in DOMAIN master_styles.rows[i]
    /\ (ret.op \in Downstream /\ master_styles.rows # <<>>) => ret.raised = ""

(* a downstream builder has failed on the stored master table *)
C1_DownstreamKeyError ==
    /\ ret.op = "build_watchlist_30d"
    /\ ret.raised = "KeyError"
    /\ master_styles.rows # <<>>

(* C2: build_master_table returns exactly one row per distinct StyleKey of
   the catalog keys together with the sales keys: none is missing and none
   has two rows. *)
C2_OneRowPerKeyOfUnion ==
    MasterBuilt =>
        LET rows == ret.value.rows
        IN  /\ {RowKey(rows[i]) : i \in 1..Len(rows)} = CatalogKeys \cup SalesKeys
            /\ \A i, j \in 1..Len(rows) : RowKey(rows[i]) = RowKey(rows[j]) => i = j

(* a catalog hides a sales key, or lists one key under two identifiers *)
C2_KeyMissingOrTwice ==
    /\ MasterBuilt
    /\ \/ \E k \in SalesKeys :
            \A i \in 1..Len(ret.value.rows) : RowKey(ret.value.rows[i]) # k
       \/ \E i, j \in 1..Len(ret.value.rows) :
            i # j /\ RowKey(ret.value.rows[i]) = RowKey(ret.value.rows[j])

(* C3: in a built master table a row is Catalog-Only exactly when no sales
   record has its StyleKey, whatever the parameters and the returns. *)
C3_CatalogOnlyIffNoSales ==
    MasterBuilt =>
        \A i \in 1..Len(ret.value.rows) :
            (ret.value.rows[i].Status = "Catalog-Only")
                <=> (SalesOf(RowKey(ret.value.rows[i])) = {})

(* one table holds a style without sales and a style with sales, the returns
   are loaded and a parameter was changed *)
C3_BothKindsOfRow ==
    /\ MasterBuilt
    /\ \E i, j \in 1..Len(ret.value.rows) :
        /\ ret.value.rows[i].Status = "Catalog-Only"
        /\ SalesOf(RowKey(ret.value.rows[i])) = {}
        /\ ret.value.rows[j].Status # "Catalog-Only"
        /\ SalesOf(RowKey(ret.value.rows[j])) # {}

(* the status rules as the claim orders them *)
StatusByRule(first_order, orders, days, zero_age, new_age) ==
    IF first_order = NoneVal THEN "Catalog-Only"
    ELSE IF orders = 0 /\ days >= zero_age THEN "Zero-Sale"
    ELSE IF days <= new_age THEN "New"
    ELSE IF orders > 0 THEN "Active"
    ELSE "Unknown"

(* C4: the Status of every row is the first matching rule of Catalog-Only,
   Zero-Sale, New, Active, Unknown, with the New cutoff at the configured
   new_age_days. *)
C4_StatusFollowsRules ==
    MasterBuilt =>
        \A i \in 1..Len(ret.value.rows) :
            LET row == ret.value.rows[i]
            IN  row.Status = StatusByRule(row.FirstOrderDate, row.Orders,
                                          params.today - row.FirstOrderDate,
                                          params.zero_sale_age_days,
                                          params.new_age_days)

(* a style older than the configured new_age_days is still New *)
C4_NewPastConfiguredAge ==
    /\ MasterBuilt
    /\ \E i \in 1..Len(ret.value.rows) :
        /\ ret.value.rows[i].Status = "New"
        /\ ret.value.rows[i].Days_Since_FirstUpdate > params.new_age_days

(* the day the catalog says the style was listed, NaT when it says nothing *)
FirstSeen(style_id) ==
    LET lines == {i \in 1..Len(catalog_raw.rows) :
                    /\ catalog_raw.columns = CatalogColumns
                    /\ catalog_raw.rows[i][2].s = style_id}
    IN  IF lines = {} THEN NaT
        ELSE catalog_raw.rows[CHOOSE i \in lines : \A j \in lines : i <= j][1].d

(* C5: a style with Orders = 0 first seen at least zero_sale_age_days before
   today is Zero-Sale in the built master table. *)
C5_ZeroSaleAfterAge ==
    MasterBuilt =>
        \A i \in 1..Len(ret.value.rows) :
            LET row == ret.value.rows[i]
            IN  (/\ row.Orders = 0
                 /\ FirstSeen(row.StyleID) # NaT
                 /\ params.today - FirstSeen(row.StyleID) >= params.zero_sale_age_days)
                => row.Status = "Zero-Sale"

(* a style without orders, listed zero_sale_age_days ago or earlier, is
   Catalog-Only *)
C5_OldUnsoldIsCatalogOnly ==
    /\ MasterBuilt
    /\ \E i \in 1..Len(ret.value.rows) :
        /\ ret.value.rows[i].Orders = 0
        /\ FirstSeen(ret.value.rows[i].StyleID) # NaT
        /\ params.today - FirstSeen(ret.value.rows[i].StyleID)
                >= params.zero_sale_age_days
        /\ ret.value.rows[i].Status = "Catalog-Only"

(* C6: in every master row RiskFlag is "High Returns" exactly when ReturnPct
   is at least the configured high_return_pct, and is empty otherwise. *)
C6_RiskFlagIffAtLeastThreshold ==
    MasterBuilt =>
        \A i \in 1..Len(ret.value.rows) :
            LET row == ret.value.rows[i]
                at_least == row.ReturnPct.num * params.high_return_pct.den
                                >= params.high_return_pct.num * row.ReturnPct.den
            IN  /\ row.RiskFlag \in {"High Returns", ""}
                /\ (row.RiskFlag = "High Returns") <=> at_least

(* a row whose rate equals the threshold is flagged, and another table row
   below it is not *)
C6_FlaggedAtThreshold ==
    /\ MasterBuilt
    /\ \E i \in 1..Len(ret.value.rows) :
        /\ ret.value.rows[i].ReturnPct.num > 0
        /\ ret.value.rows[i].ReturnPct.num * params.high_return_pct.den
                = params.high_return_pct.num * ret.value.rows[i].ReturnPct.den
        /\ ret.value.rows[i].RiskFlag = "High Returns"

(***************************************************************************)
(* Return rates, the KPI window and the watchlist.                         *)
(***************************************************************************)
(* the sales rows with a date from day lo to day hi, of one style or of all *)
SalesBetween(lo, hi) ==
    {i \in 1..Len(sales_raw.rows) :
        /\ sales_raw.rows[i].OrderDate # NaT
        /\ lo <= sales_raw.rows[i].OrderDate
        /\ sales_raw.rows[i].OrderDate <= hi}

StyleSalesBetween(key, lo, hi) ==
    {i \in SalesBetween(lo, hi) : sales_raw.rows[i].StyleKey = key}

(* the last call was a build_watchlist_30d that stored its table *)
WatchlistBuilt ==
    /\ ret.op = "build_watchlist_30d"
    /\ ret.raised = ""
    /\ ret.value.rows # <<>>

(* C7: no return percentage comes from a division by zero.  A master row's
   ReturnPct is UnitsReturned / Orders when Orders > 0 and 0 when Orders = 0;
   the percentage of get_kpis and of kpi_return_pct_30d is 0 when the order
   count of its window is 0 or no returns table is loaded. *)
C7_ReturnPctNeverDividesByZero ==
    /\ MasterBuilt =>
        \A i \in 1..Len(ret.value.rows) :
            LET row == ret.value.rows[i]
            IN  /\ row.ReturnPct.den # 0
                /\ row.Orders > 0 =>
                    row.ReturnPct.num * row.Orders
                        = row.UnitsReturned * row.ReturnPct.den
                /\ row.Orders = 0 => row.ReturnPct.num = 0
    /\ (ret.op = "get_kpis" /\ ~ret.value.empty) =>
        /\ ret.value.return_pct_30d.den # 0
        /\ (ret.value.total_orders_30d = 0 \/ returns_raw.isNone)
                => ret.value.return_pct_30d.num = 0
    /\ ret.op = "kpi_return_pct_30d" =>
        /\ ret.value.pct.den # 0
        /\ (kpi_total_orders_30d(sales_raw, params.today) = 0 \/ returns_raw.isNone)
                => ret.value.pct.num = 0

(* get_kpis found no order in its window while returns fall into it *)
C7_KpiWithoutOrders ==
    /\ ret.op = "get_kpis"
    /\ ~ret.value.empty
    /\ ret.value.total_orders_30d = 0
    /\ \E i \in 1..Len(returns_raw.rows) :
        /\ returns_raw.rows[i].UnitsReturned > 0
        /\ returns_raw.rows[i].ReturnDate >= params.today - KpiWindowDays
        /\ returns_raw.rows[i].ReturnDate <= params.today
    /\ ret.value.return_pct_30d = IntRatio(0)

(* C8: TotalOrders counts exactly the sales records dated from today - w to
   today, both days included: nothing older and nothing dated in the future
   (w = 30 in get_kpis and in kpi_total_orders_30d). *)
C8_TotalOrdersWindowInclusive ==
    LET in_window ==
            Cardinality(SalesBetween(params.today - KpiWindowDays, params.today))
    IN  /\ (ret.op = "get_kpis" /\ ~ret.value.empty) =>
                ret.value.total_orders_30d = in_window
        /\ ret.op = "kpi_total_orders_30d" => ret.value.total = in_window

(* kpi_total_orders_30d has counted a sale dated after today *)
C8_FutureSaleCounted ==
    /\ ret.op = "kpi_total_orders_30d"
    /\ \E i \in 1..Len(sales_raw.rows) : sales_raw.rows[i].OrderDate > params.today
    /\ ret.value.total
            > Cardinality(SalesBetween(params.today - KpiWindowDays, params.today))

(* the days whose sales build_watchlist_30d counts as recent and as previous *)
WatchedDays ==
    (params.today - 2 * params.report_window_days - 2)..(params.today + 2)
RecentDays ==
    {d \in WatchedDays : InRecent(d, params.today, params.report_window_days)}
PreviousDays ==
    {d \in WatchedDays : InPrev(d, params.today, params.report_window_days)}

(* C9: the previous window of build_watchlist_30d has as many calendar days
   as the recent window and ends the day before the recent window starts. *)
C9_PreviousWindowEqualAndAdjacent ==
    WatchlistBuilt =>
        /\ Cardinality(PreviousDays) = Cardinality(RecentDays)
        /\ \A d \in RecentDays : (\A e \in RecentDays : d <= e) =>
                /\ d - 1 \in PreviousDays
                /\ \A e \in PreviousDays : e < d

(* the two windows touch, and the recent one is a day longer *)
C9_RecentWindowOneDayLonger ==
    /\ WatchlistBuilt
    /\ Cardinality(RecentDays) = Cardinality(PreviousDays) + 1
    /\ params.today - params.report_window_days \in RecentDays
    /\ params.today - params.report_window_days - 1 \in PreviousDays

(* is ratio m the number the claim gives for the counts r and p? *)
IsMomentumOf(m, r, p) ==
    /\ m.den # 0
    /\ p > 0 => m.num * p = (r - p) * m.den
    /\ (p = 0 /\ r > 0) => m.num = m.den
    /\ (p = 0 /\ r = 0) => m.num = 0

(* C10: MomentumPct is (OrdersRecent - OrdersPrevious) / OrdersPrevious when
   OrdersPrevious > 0, else 1.0 when OrdersRecent > 0 and 0.0 when not; it
   never comes from a division by zero.  Checked of calculate_momentum for
   every pair of counts and of every row of a built watchlist. *)
C10_MomentumFormula ==
    /\ ret.op = "calculate_momentum" =>
        IsMomentumOf(ret.value.momentum, ret.arg[1], ret.arg[2])
    /\ WatchlistBuilt =>
        \A i \in 1..Len(ret.value.rows) :
            LET row == ret.value.rows[i]
                w == params.report_window_days
                r == Cardinality(StyleSalesBetween(row.StyleID,
                                    params.today - w, params.today))
                p == Cardinality(StyleSalesBetween(row.StyleID,
                                    params.today - 2 * w, params.today - w - 1))
            IN  IsMomentumOf(row.MomentumPct, r, p)

(* a watchlist row of a style that sold in both windows, more in the recent
   one *)
C10_RisingRow ==
    /\ WatchlistBuilt
    /\ \E i \in 1..Len(ret.value.rows) :
        LET row == ret.value.rows[i]
            w == params.report_window_days
        IN  /\ StyleSalesBetween(row.StyleID, params.today - 2 * w,
                                 params.today - w - 1) # {}
            /\ row.Orders30dEst > 0
            /\ row.MomentumPct.num > 0

(***************************************************************************)
(* The watchlist tag.                                                      *)
(***************************************************************************)
(* the tag rules in their order *)
TagByRule(age, orders_recent, orders_prev, momentum, new_age, min_orders) ==
    IF age <= new_age THEN "NEW"
    ELSE IF orders_recent >= min_orders /\ orders_prev = 0 THEN "STARTED"
    ELSE IF momentum.num * 100 > 15 * momentum.den THEN "RISING"
    ELSE IF momentum.num * 100 < -15 * momentum.den THEN "FALLING"
    ELSE "FLAT"

(* the rows of a built watchlist whose style has a dated sale, so an age *)
AgedRows ==
    {i \in 1..Len(ret.value.rows) : FirstOrder(ret.value.rows[i].StyleID) # NaT}

(* C11: the Tag of a watchlist row is the first matching rule of NEW (style
   age <= new_age_days), STARTED, RISING, FALLING, FLAT; a style that sold
   only in the recent window is NEW while its age is within new_age_days. *)
C11_TagFollowsRules ==
    WatchlistBuilt =>
        \A i \in AgedRows :
            LET row == ret.value.rows[i]
                w == params.report_window_days
                r == Cardinality(StyleSalesBetween(row.StyleID,
                                    params.today - w, params.today))
                p == Cardinality(StyleSalesBetween(row.StyleID,
                                    params.today - 2 * w, params.today - w - 1))
            IN  row.Tag = TagByRule(params.today - FirstOrder(row.StyleID), r, p,
                                    row.MomentumPct, params.new_age_days,
                                    params.watch_min_orders)

(* a style first ordered within new_age_days is tagged STARTED *)
C11_StartedWhileNew ==
    /\ WatchlistBuilt
    /\ \E i \in AgedRows :
        /\ ret.value.rows[i].Tag = "STARTED"
        /\ ret.value.rows[i].Orders30dEst >= params.watch_min_orders
        /\ params.today - FirstOrder(ret.value.rows[i].StyleID) <= params.new_age_days

(***************************************************************************)
(* The returns split.                                                      *)
(***************************************************************************)
(* the returns of a style dated within return_window_days of today *)
ReturnsInWindow(key) ==
    {i \in 1..Len(returns_raw.rows) :
        /\ returns_raw.rows[i].StyleKey = key
        /\ returns_raw.rows[i].ReturnDate # NaT
        /\ returns_raw.rows[i].ReturnDate >= params.today - params.return_window_days
        /\ returns_raw.rows[i].ReturnDate <= params.today}

RECURSIVE UnitsOf(_)
UnitsOf(S) ==
    IF S = {} THEN 0
    ELSE LET i == CHOOSE i \in S : TRUE
         IN  returns_raw.rows[i].UnitsReturned + UnitsOf(S \ {i})

(* C12: build_returns_type_split emits rows only for master styles whose
   returned quantity within [today - return_window_days, today] is positive,
   and in each row RTO Qty + Return Qty = Total Returns, every in-window
   return counted in one of the two by whether its type contains "RTO". *)
C12_SplitRowsOnlyForReturnedStyles ==
    ret.op = "build_returns_type_split" =>
        /\ ret.raised = ""
        /\ \A i \in 1..Len(ret.value.rows) :
            LET row == ret.value.rows[i]
                in_window == ReturnsInWindow(RowKey(row))
                rto == {j \in in_window : IsRto(returns_raw.rows[j].ReturnType)}
            IN  /\ UnitsOf(in_window) > 0
                /\ row.TotalReturns = UnitsOf(in_window)
                /\ row.RTOQty = UnitsOf(rto)
                /\ row.ReturnQty = UnitsOf(in_window \ rto)
                /\ row.RTOQty + row.ReturnQty = row.TotalReturns

(* the split fails although a master style has returns in the window *)
C12_SplitFailsOnStoredMaster ==
    /\ ret.op = "build_returns_type_split"
    /\ ret.raised = "KeyError"
    /\ \E i \in 1..Len(master_styles.rows) :
            UnitsOf(ReturnsInWindow(RowKey(master_styles.rows[i]))) > 0

(***************************************************************************)
(* The inventory forecast.                                                 *)
(***************************************************************************)
(* the last call was a build_inventory_forecast that read a sales table and
   stored its table *)
ForecastBuilt ==
    /\ ret.op = "build_inventory_forecast"
    /\ ret.raised = ""
    /\ ~sales_raw.isNone

(* the number of a style's sales rows dated within
   [today - forecast_lookback_days, today] *)
LookbackOrders(key) ==
    Cardinality(StyleSalesBetween(key, params.today - params.forecast_lookback_days,
                                  params.today))

(* C13: the table build_inventory_forecast returns has no row for a style
   without a sales row dated within [today - forecast_lookback_days, today]:
   every row's style has a positive number of such rows, and the row's
   average of daily sales is that number over the lookback. *)
C13_ForecastRowsHaveLookbackSales ==
    ForecastBuilt =>
        \A i \in 1..Len(ret.value.rows) :
            LET row == ret.value.rows[i]
            IN  /\ LookbackOrders(RowKey(row)) > 0
                /\ row.AvgDailySales = Divide(LookbackOrders(RowKey(row)),
                                              params.forecast_lookback_days)

(* a forecast with a row, built from a sales table that also holds a style
   sold only before the lookback, which has no row *)
C13_StyleOutsideLookbackSkipped ==
    /\ ForecastBuilt
    /\ ret.value.rows # <<>>
    /\ \E key \in SalesKeys :
          /\ LookbackOrders(key) = 0
          /\ \A i \in 1..Len(ret.value.rows) : RowKey(ret.value.rows[i]) # key

(***************************************************************************)
(* Imports.                                                                *)
(***************************************************************************)
(* the last call was an import through the processor that stored its table *)
SalesImported ==
    /\ ret.op = "import_sales_csv"
    /\ ret.value.success

(* the last call was DataImporters.import_sales_csv and it returned *)
ImporterReturned ==
    /\ ret.op = "DataImporters.import_sales_csv"
    /\ ret.raised = ""

QtyColumn(df) == FirstIndex({i \in 1..Len(df.columns) : df.columns[i] = H_Qty})

(* C14: every sales record import_sales_csv produces has NetUnits = 1, with
   or without a quantity column in the file, be it the processor's import or
   the import of DataImporters; so the Orders of a master row is the number
   of sales rows of its key. *)
C14_EverySalesRecordIsOneUnit ==
    /\ SalesImported =>
          \A i \in 1..Len(sales_raw.rows) : sales_raw.rows[i].NetUnits = 1
    /\ ImporterReturned =>
          \A i \in 1..Len(ret.value.data) : ret.value.data[i].NetUnits = 1
    /\ MasterBuilt =>
          \A i \in 1..Len(ret.value.rows) :
              ret.value.rows[i].Orders
                  = Cardinality({j \in 1..Len(sales_raw.rows) :
                        sales_raw.rows[j].StyleKey = RowKey(ret.value.rows[i])})

(* DataImporters.import_sales_csv read a file with a "Qty" of 3 and returned
   a record of three units *)
C14_ImporterTakesQty ==
    /\ ImporterReturned
    /\ QtyColumn(ret.arg) # 0
    /\ \E i \in 1..Len(ret.value.data) :
          /\ ret.arg.rows[i][QtyColumn(ret.arg)].s = <<"3">>
          /\ ret.value.data[i].NetUnits = 3

(* the processor read the same file and stored records of one unit *)
C14_ProcessorIgnoresQty ==
    /\ SalesImported
    /\ QtyColumn(ret.arg) # 0
    /\ \E i \in 1..Len(sales_raw.rows) :
          /\ ret.arg.rows[i][QtyColumn(ret.arg)].s = <<"3">>
          /\ sales_raw.rows[i].NetUnits = 1

(***************************************************************************)
(* Column detection.                                                       *)
(***************************************************************************)
(* the column a role gets when a keyword binds every header that contains
   it and the earliest keyword of the list with such a header decides: the
   first column containing that keyword, 0 when no keyword is contained *)
SubstringColumn(columns, patterns) ==
    LET Hit(p, col) == Contains(Lower(col), p)
        k == FirstIndex({i \in 1..Len(patterns) :
                            \E c \in 1..Len(columns) : Hit(patterns[i], columns[c])})
    IN  IF k = 0 THEN 0
        ELSE FirstIndex({c \in 1..Len(columns) : Hit(patterns[k], columns[c])})

(* C15: a role is bound to a column whose lowered header contains one of the
   role's keywords, and among several candidates the earliest keyword of the
   list decides: each importer binds date and style to those columns, and
   the processor's imports succeed exactly when both are bound that way. *)
C15_RolesBoundBySubstringInKeywordOrder ==
    /\ ret.op = "import_sales_csv" =>
          LET date_col == SubstringColumn(ret.arg.columns, sales_date_patterns)
              style_col == SubstringColumn(ret.arg.columns, sales_style_patterns)
          IN  IF date_col = 0 \/ style_col = 0 THEN ~ret.value.success
              ELSE /\ ret.value.success
                   /\ ret.value.columns_mapped.date_col = date_col
                   /\ ret.value.columns_mapped.style_col = style_col
    /\ ret.op = "import_returns_csv" =>
          LET date_col == SubstringColumn(ret.arg.columns, returns_date_patterns)
              style_col == SubstringColumn(ret.arg.columns, returns_style_patterns)
          IN  IF date_col = 0 \/ style_col = 0 THEN ~ret.value.success
              ELSE /\ ret.value.success
                   /\ ret.value.columns_mapped.date_col = date_col
                   /\ ret.value.columns_mapped.style_col = style_col
    /\ ImporterReturned =>
          /\ ret.value.mapping.date_col
                = SubstringColumn(ret.arg.columns, date_candidates)
          /\ ret.value.mapping.style_col
                = SubstringColumn(ret.arg.columns, style_candidates)

(* the processor refused a sales file whose date header is
   "Myntra Order Date" *)
C15_MyntraOrderDateNotBound ==
    /\ ret.op = "import_sales_csv"
    /\ ret.arg.columns[1] = H_MyntraOrderDate
    /\ SubstringColumn(ret.arg.columns, sales_date_patterns) = 1
    /\ ~ret.value.success

(* DataImporters bound the date to the first column, "Date", though the
   earlier keyword "order date" is in the second header *)
C15_ImporterFirstColumnDecides ==
    /\ ImporterReturned
    /\ SubstringColumn(ret.arg.columns, date_candidates) = 2
    /\ ret.value.mapping.date_col = 1

(* the processor bound the date of the same file by the earlier keyword *)
C15_ProcessorKeywordOrderDecides ==
    /\ ret.op = "import_sales_csv"
    /\ ret.arg.columns[1] = H_Date
    /\ ret.value.success
    /\ ret.value.columns_mapped.date_col = 2

(* C16: import_sales_csv and import_returns_csv report failure exactly when
   the detector binds no date column or no style column; a file without a
   quantity, price or type column imports, its rows are all processed and
   stored, and the mapping it reports has both roles bound. *)
C16_ImportFailsIffDateOrStyleUnbound ==
    /\ ret.op = "import_sales_csv" =>
          LET date_col == DetectColumn(ret.arg.columns, sales_date_patterns)
              style_col == DetectColumn(ret.arg.columns, sales_style_patterns)
          IN  /\ ~ret.value.success <=> (date_col = 0 \/ style_col = 0)
              /\ ~ret.value.success =>
                    /\ ret.value.errors # <<>>
                    /\ ret.value.rows_processed = 0
              /\ ret.value.success =>
                    /\ ret.value.columns_mapped.date_col = date_col
                    /\ ret.value.columns_mapped.style_col = style_col
                    /\ ret.value.rows_processed = Len(ret.arg.rows)
                    /\ ~sales_raw.isNone
                    /\ Len(sales_raw.rows) = Len(ret.arg.rows)
    /\ ret.op = "import_returns_csv" =>
          LET date_col == DetectColumn(ret.arg.columns, returns_date_patterns)
              style_col == DetectColumn(ret.arg.columns, returns_style_patterns)
          IN  /\ ~ret.value.success <=> (date_col = 0 \/ style_col = 0)
              /\ ~ret.value.success =>
                    /\ ret.value.errors # <<>>
                    /\ ret.value.rows_processed = 0
              /\ ret.value.success =>
                    /\ ret.value.columns_mapped.date_col = date_col
                    /\ ret.value.columns_mapped.style_col = style_col
                    /\ ret.value.rows_processed = Len(ret.arg.rows)
                    /\ ~returns_raw.isNone
                    /\ Len(returns_raw.rows) = Len(ret.arg.rows)

(* the sales file with headers "Order Date", "Style ID" and nothing else was
   imported with both roles bound *)
C16_ImportedWithoutQty ==
    /\ ret.op = "import_sales_csv"
    /\ ret.arg.columns = <<H_OrderDate, H_StyleID>>
    /\ ret.value.success
    /\ ret.value.columns_mapped.date_col = 1
    /\ ret.value.columns_mapped.style_col = 2
    /\ ret.value.columns_mapped.price_col = 0
    /\ Len(sales_raw.rows) = 2

(* a returns file without a style column was refused *)
C16_ReturnsWithoutStyleRefused ==
    /\ ret.op = "import_returns_csv"
    /\ ret.arg.columns = <<H_ReturnDate, H_Qty, H_Status>>
    /\ ~ret.value.success

(***************************************************************************)
(* Style keys.                                                             *)
(***************************************************************************)
(* C17: _normalize_style_id is idempotent: what it returns for a scalar (the
   null, a number, a text in any case, with blanks around it or with a zero
   fraction) is returned unchanged when normalised again, so every call after
   the first returns its argument. *)
C17_NormalizeIdempotent ==
    ret.op = "_normalize_style_id" =>
        /\ NormalizeStyleId(ret.value.key) = ret.value.key
        /\ calls >= 2 => ret.value.key = ret.arg

(* a second call, made on the key "1" that the first call returned *)
C17_NormalizedTwice ==
    /\ ret.op = "_normalize_style_id"
    /\ calls = 2
    /\ ret.arg = <<"1">>
    /\ ret.value.key = <<"1">>

(* the last call was MasterTableBuilder.build_master_table and it returned *)
BuilderBuilt ==
    /\ ret.op = "MasterTableBuilder.build_master_table"
    /\ ret.raised = ""

StyleReturnsUnits(key) ==
    IF returns_raw.isNone THEN 0
    ELSE UnitsOf({i \in 1..Len(returns_raw.rows) : returns_raw.rows[i].StyleKey = key})

(* C18: identifiers that differ only in case, in blanks around them or in a
   zero fraction have one StyleKey wherever a key is made: the sales import,
   the returns import and the catalog identifiers a master builder reads.  So
   a row built for a catalog identifier carries the orders and the returned
   units of every sales and returns record of that style. *)
C18_CatalogStyleJoinsSalesAndReturns ==
    (MasterBuilt \/ BuilderBuilt) =>
        \A i \in 1..Len(ret.value.rows) :
            LET row == ret.value.rows[i]
            IN  /\ row.Orders = Cardinality({j \in 1..Len(sales_raw.rows) :
                                     sales_raw.rows[j].StyleKey = RowKey(row)})
                /\ row.UnitsReturned = StyleReturnsUnits(RowKey(row))

(* MasterTableBuilder built a row without orders for the catalog identifier
   "1.0" while the sales table holds a record of style "1" *)
C18_BuilderMissesZeroFraction ==
    /\ BuilderBuilt
    /\ \E i \in 1..Len(ret.value.rows) :
          /\ ret.value.rows[i].StyleID = <<"1", ".", "0">>
          /\ ret.value.rows[i].Orders = 0
          /\ ret.value.rows[i].Status = "Catalog-Only"
    /\ \E j \in 1..Len(sales_raw.rows) : sales_raw.rows[j].StyleKey = <<"1">>

(* the processor's builder joined the same identifier to that record *)
C18_ProcessorJoinsZeroFraction ==
    /\ MasterBuilt
    /\ \E i \in 1..Len(ret.value.rows) :
          /\ ret.value.rows[i].StyleID = <<"1", ".", "0">>
          /\ ret.value.rows[i].Orders = 1

(***************************************************************************)
(* Parameters.                                                             *)
(***************************************************************************)
(* no call was made on the processor since it was constructed *)
Fresh == ret = NoCall /\ calls = 0

(* the defaults the two window parameters are not among *)
OtherDefaultsHeld ==
    /\ params.zero_sale_age_days = 14
    /\ RatioEq(params.high_return_pct, Ratio(35, 100))
    /\ params.watch_min_orders = 3
    /\ params.new_age_days = 60
    /\ params.forecast_lookback_days = 30
    /\ params.event_days = 10
    /\ RatioEq(params.traffic_multiplier, IntRatio(3))
    /\ RatioEq(params.forecast_return_rate, Ratio(25, 100))
    /\ params.leadtime_days = 7
    /\ RatioEq(params.service_level, Ratio(9, 10))
    /\ params.use_momentum_adjust = TRUE

(* C19: a freshly constructed processor holds the documented defaults:
   zero_sale_age_days 14, high_return_pct 0.35, watch_min_orders 3,
   new_age_days 60, forecast_lookback_days 30, event_days 10,
   traffic_multiplier 3.0, forecast_return_rate 0.25, leadtime_days 7,
   service_level 0.9, use_momentum_adjust true, report_window_days 30 and
   return_window_days 30. *)
C19_FreshDefaults ==
    Fresh =>
        /\ OtherDefaultsHeld
        /\ params.report_window_days = 30
        /\ params.return_window_days = 30

(* a fresh processor: the eleven other defaults as documented, a report
   window of 7 days and a return window of 60 days *)
C19_FreshWindows7And60 ==
    /\ Fresh
    /\ OtherDefaultsHeld
    /\ params.report_window_days = 7
    /\ params.return_window_days = 60

(***************************************************************************)
(* Builders without data.                                                  *)
(***************************************************************************)
(* C20: a builder called without its data returns an empty table, raises
   nothing and leaves every stored table as it was: build_master_table with
   neither sales nor catalog, build_watchlist_30d and
   build_inventory_forecast without sales, build_returns_type_split without
   returns or without a master table. *)
C20_NoDataGivesEmptyTable ==
    [][LET Calling(op) == calls' = calls + 1 /\ ret'.op = op
           EmptyAndUntouched ==
               /\ ret'.raised = ""
               /\ ret'.value = Table(<<>>)
               /\ UNCHANGED <<params, sales_raw, returns_raw, catalog_raw,
                              master_styles, watchlist_30d, forecast>>
       IN  /\ (Calling("build_master_table")
                /\ sales_raw.isNone /\ catalog_raw.isNone) => EmptyAndUntouched
           /\ (Calling("build_watchlist_30d") /\ sales_raw.isNone)
                => EmptyAndUntouched
           /\ (Calling("build_inventory_forecast") /\ sales_raw.isNone)
                => EmptyAndUntouched
           /\ (Calling("build_returns_type_split")
                /\ (returns_raw.isNone \/ master_styles.isNone))
                => EmptyAndUntouched]_vars

(* build_watchlist_30d was called with returns loaded and no sales: it gave
   an empty table and stored none *)
C20_WatchlistWithoutSales ==
    /\ ret.op = "build_watchlist_30d"
    /\ sales_raw.isNone
    /\ ~returns_raw.isNone
    /\ ret.raised = ""
    /\ ret.value = Table(<<>>)
    /\ watchlist_30d.isNone

(* build_returns_type_split was called with returns loaded and no master *)
C20_SplitWithoutMaster ==
    /\ ret.op = "build_returns_type_split"
    /\ ~returns_raw.isNone
    /\ master_styles.isNone
    /\ ret.value = Table(<<>>)

(***************************************************************************)
(* Derived tables and the data they were built from.                       *)
(***************************************************************************)
(* the momentum of a style in the sales table stored now *)
CurrentMomentum(key) ==
    LET w == params.report_window_days
        r == Cardinality(StyleSalesBetween(key, params.today - w, params.today))
        p == Cardinality(StyleSalesBetween(key, params.today - 2 * w,
                                           params.today - w - 1))
    IN  Momentum(r, p)

(* the momentum the stored watchlist holds for a style *)
StoredMomentum(style_id) ==
    LET w == SelectSeq(watchlist_30d.rows, LAMBDA r : r.StyleID = style_id)
    IN  w[1].MomentumPct

InStoredWatchlist(style_id) ==
    /\ ~watchlist_30d.isNone
    /\ \E i \in 1..Len(watchlist_30d.rows) : watchlist_30d.rows[i].StyleID = style_id

(* C21: the table build_watchlist_30d or build_inventory_forecast returns
   depends on the tables and parameters stored at the call only: a watchlist
   row carries the momentum of the stored sales, and a forecast row is scaled
   by no momentum or by the momentum of the stored sales, never by the
   momentum of a sales table that was replaced since. *)
C21_ReportsFromCurrentDataOnly ==
    /\ WatchlistBuilt =>
          \A i \in 1..Len(ret.value.rows) :
              LET row == ret.value.rows[i]
              IN  RatioEq(row.MomentumPct, CurrentMomentum(RowKey(row)))
    /\ ForecastBuilt =>
          \A i \in 1..Len(ret.value.rows) :
              LET row == ret.value.rows[i]
              IN  \/ RatioEq(row.GrossForecast,
                             GrossForecast(row.AvgDailySales, IntRatio(0)))
                  \/ RatioEq(row.GrossForecast,
                             GrossForecast(row.AvgDailySales,
                                           CurrentMomentum(RowKey(row))))

(* a forecast row scaled by the momentum of the stored watchlist, which is
   not the momentum of the sales table stored now *)
C21_ForecastUsesStaleMomentum ==
    /\ ForecastBuilt
    /\ params.use_momentum_adjust
    /\ \E i \in 1..Len(ret.value.rows) :
          LET row == ret.value.rows[i]
          IN  /\ InStoredWatchlist(row.StyleID)
              /\ ~RatioEq(StoredMomentum(row.StyleID), CurrentMomentum(RowKey(row)))
              /\ RatioEq(row.GrossForecast,
                         GrossForecast(row.AvgDailySales, StoredMomentum(row.StyleID)))
              /\ ~RatioEq(row.GrossForecast,
                          GrossForecast(row.AvgDailySales,
                                        CurrentMomentum(RowKey(row))))

(***************************************************************************)
(* Sales whose date does not parse.                                        *)
(***************************************************************************)
(* the stored sales rows with a date, of one style or of all *)
DatedSales == {i \in 1..Len(sales_raw.rows) : sales_raw.rows[i].OrderDate # NaT}
DatedSalesOf(key) == {i \in DatedSales : sales_raw.rows[i].StyleKey = key}

(* a style of the stored sales table none of whose rows has a date *)
UndatedStyle(key) == key \in SalesKeys /\ DatedSalesOf(key) = {}

(* C22: a sales row whose date does not parse is stored with a null
   OrderDate; it is in no window count (total_orders_30d of get_kpis and of
   kpi_total_orders_30d, Orders30dEst of the watchlist); and it makes no
   later stage fail: build_master_table returns a table also when every
   sales row of a style has a null date. *)
C22_NullDatedSalesKeptAndHarmless ==
    /\ SalesImported =>
          /\ Len(sales_raw.rows) = Len(ret.arg.rows)
          /\ \A i \in 1..Len(sales_raw.rows) :
                ret.arg.rows[i][ret.value.columns_mapped.date_col].d = NaT
                    => sales_raw.rows[i].OrderDate = NaT
    /\ (ret.op = "get_kpis" /\ ~ret.value.empty) =>
          ret.value.total_orders_30d <= Cardinality(DatedSales)
    /\ ret.op = "kpi_total_orders_30d" => ret.value.total <= Cardinality(DatedSales)
    /\ WatchlistBuilt =>
          \A i \in 1..Len(ret.value.rows) :
              ret.value.rows[i].Orders30dEst
                  <= Cardinality(DatedSalesOf(RowKey(ret.value.rows[i])))
    /\ ret.op = "build_master_table" => ret.raised = ""

(* build_master_table raised a TypeError over a style whose sales rows all
   have a null date *)
C22_MasterFailsOnUndatedStyle ==
    /\ ret.op = "build_master_table"
    /\ ret.raised = "TypeError"
    /\ \E i \in 1..Len(StylesData) : UndatedStyle(StylesData[i].StyleKey)

(***************************************************************************)
(* The empty StyleKey.                                                     *)
(***************************************************************************)
EmptyKey == <<>>

(* C23: records whose StyleKey is the empty string are filtered before any
   aggregation: no row of the master table, of the watchlist or of the
   forecast is made for the empty key, so no Orders, GMV or UnitsReturned is
   the sum of records without a style. *)
C23_EmptyKeyFiltered ==
    (MasterBuilt \/ WatchlistBuilt \/ ForecastBuilt) =>
        \A i \in 1..Len(ret.value.rows) : RowKey(ret.value.rows[i]) # EmptyKey

(* a master row made for the empty key, with the sale that names no style
   as its order *)
C23_MasterRowForEmptyKey ==
    /\ MasterBuilt
    /\ \E i \in 1..Len(ret.value.rows) :
          /\ RowKey(ret.value.rows[i]) = EmptyKey
          /\ ret.value.rows[i].Orders >= 1
    /\ \E j \in 1..Len(sales_raw.rows) : sales_raw.rows[j].StyleKey = EmptyKey

(* a watchlist row and a forecast row made for the empty key *)
C23_WatchlistRowForEmptyKey ==
    /\ WatchlistBuilt
    /\ \E i \in 1..Len(ret.value.rows) : RowKey(ret.value.rows[i]) = EmptyKey

C23_ForecastRowForEmptyKey ==
    /\ ForecastBuilt
    /\ \E i \in 1..Len(ret.value.rows) : RowKey(ret.value.rows[i]) = EmptyKey

(***************************************************************************)
(* Status and newness bucket.                                              *)
(***************************************************************************)
(* C24: in every master row the Newness_Bucket is "Unknown" exactly when the
   Status is "Catalog-Only", a "New" row has one of the buckets 0-7d, 8-30d,
   31-60d, and an "Active" row has the bucket 61-90d or 91d+. *)
C24_StatusAgreesWithBucket ==
    MasterBuilt =>
        \A i \in 1..Len(ret.value.rows) :
            LET row == ret.value.rows[i]
            IN  /\ row.Newness_Bucket = "Unknown" <=> row.Status = "Catalog-Only"
                /\ row.Status = "New"
                      => row.Newness_Bucket \in {"0-7d", "8-30d", "31-60d"}
                /\ row.Status = "Active"
                      => row.Newness_Bucket \in {"61-90d", "91d+"}

(* a master table with a New row in the bucket 31-60d and an Active row in
   the bucket 61-90d *)
C24_NewAndActiveRows ==
    /\ MasterBuilt
    /\ \E i \in 1..Len(ret.value.rows) :
          /\ ret.value.rows[i].Status = "New"
          /\ ret.value.rows[i].Newness_Bucket = "31-60d"
    /\ \E i \in 1..Len(ret.value.rows) :
          /\ ret.value.rows[i].Status = "Active"
          /\ ret.value.rows[i].Newness_Bucket = "61-90d"

(* a master table with a Catalog-Only row, whose bucket is Unknown, beside a
   row of a sold style *)
C24_CatalogOnlyUnknown ==
    /\ MasterBuilt
    /\ \E i \in 1..Len(ret.value.rows) :
          /\ ret.value.rows[i].Status = "Catalog-Only"
          /\ ret.value.rows[i].Newness_Bucket = "Unknown"
    /\ \E i \in 1..Len(ret.value.rows) : ret.value.rows[i].Status = "New"

(***************************************************************************)
(* The momentum adjustment of the forecast.                                *)
(***************************************************************************)
(* m held to [-0.3, 0.5] *)
Clamped(m) ==
    IF RatioGt(m, Ratio(1, 2)) THEN Ratio(1, 2)
    ELSE IF RatioLt(m, Ratio(-3, 10)) THEN Ratio(-3, 10)
    ELSE m

(* gross is base x (1 + clamp(m)) when the adjustment is on, and then lies
   between 0.7 and 1.5 times base; it is base when the adjustment is off *)
GrossIsAdjustedBase(gross, base, m, use_momentum) ==
    IF use_momentum
    THEN /\ RatioEq(gross, RatioMul(base, RatioAdd(IntRatio(1), Clamped(m))))
         /\ RatioGeq(gross, RatioMul(base, Ratio(7, 10)))
         /\ RatioGeq(RatioMul(base, Ratio(15, 10)), gross)
    ELSE RatioEq(gross, base)

(* C25: with the momentum adjustment on, GrossForecast is AvgDailySales x
   event_days x traffic_multiplier x (1 + m), m being the style's momentum
   held to [-0.3, 0.5] and 0 when the watchlist has none for the style, so
   it lies between 0.7 and 1.5 times the base; with the adjustment off it is
   the base whatever the momentum.  This holds for the rows of
   build_inventory_forecast and for calculate_inventory_forecast. *)
C25_GrossForecastMomentumClamped ==
    /\ ForecastBuilt =>
          \A i \in 1..Len(ret.value.rows) :
              LET row == ret.value.rows[i]
                  base == RatioMul(RatioMul(row.AvgDailySales,
                                            IntRatio(params.event_days)),
                                   params.traffic_multiplier)
                  m == IF InStoredWatchlist(row.StyleID)
                       THEN StoredMomentum(row.StyleID) ELSE IntRatio(0)
              IN  GrossIsAdjustedBase(row.GrossForecast, base, m,
                                      params.use_momentum_adjust)
    /\ ret.op = "calculate_inventory_forecast" =>
          LET base == RatioMul(RatioMul(ret.arg.avg_daily_sales,
                                        IntRatio(ret.arg.event_days)),
                               ret.arg.traffic_multiplier)
          IN  GrossIsAdjustedBase(ret.value.gross_forecast, base,
                                  ret.arg.momentum, ret.arg.use_momentum)

(* a forecast row of a style whose stored momentum 1 is above the cap: the
   gross forecast is 1.5 times the base *)
C25_MomentumCapped ==
    /\ ForecastBuilt
    /\ params.use_momentum_adjust
    /\ \E i \in 1..Len(ret.value.rows) :
          LET row == ret.value.rows[i]
          IN  /\ InStoredWatchlist(row.StyleID)
              /\ RatioEq(StoredMomentum(row.StyleID), IntRatio(1))
              /\ RatioEq(row.GrossForecast,
                         RatioMul(RatioMul(RatioMul(row.AvgDailySales,
                                                    IntRatio(params.event_days)),
                                           params.traffic_multiplier),
                                  Ratio(15, 10)))

(* a forecast built with the adjustment off from a watchlist that holds a
   momentum other than 0 for the style *)
C25_AdjustmentOff ==
    /\ ForecastBuilt
    /\ ~params.use_momentum_adjust
    /\ \E i \in 1..Len(ret.value.rows) :
          /\ InStoredWatchlist(ret.value.rows[i].StyleID)
          /\ ~RatioEq(StoredMomentum(ret.value.rows[i].StyleID), IntRatio(0))

(***************************************************************************)
(* Failed imports.                                                         *)
(***************************************************************************)
(* C26: an import that fails returns success = False with a non-empty list
   of errors, and leaves the stored sales table, the stored returns table,
   every other stored table and the parameters as they were before it. *)
C26_FailedImportChangesNothing ==
    [][(/\ calls' = calls + 1
        /\ ret'.op \in {"import_sales_csv", "import_returns_csv"}
        /\ ~ret'.value.success)
       => /\ ret'.value.errors # <<>>
          /\ UNCHANGED <<params, sales_raw, returns_raw, catalog_raw,
                         master_styles, watchlist_30d, forecast>>]_vars

(* a sales import failed and the sales table of an earlier import is still
   stored *)
C26_SalesKeptAfterFailedImport ==
    /\ ret.op = "import_sales_csv"
    /\ ~ret.value.success
    /\ ret.value.errors # <<>>
    /\ ~sales_raw.isNone
    /\ Len(sales_raw.rows) > 0

(* a returns import failed and the returns table of an earlier import is
   still stored *)
C26_ReturnsKeptAfterFailedImport ==
    /\ ret.op = "import_returns_csv"
    /\ ~ret.value.success
    /\ ~returns_raw.isNone

(***************************************************************************)
(* The watchlist's tag and its 'New?' field.                               *)
(***************************************************************************)
(* ages a master row can carry: none, a first order dated tomorrow, today,
   yesterday, and the two sides of new_age_days *)
WatchlistAges == {NoneVal, -1, 0, 1, 60, 61}

WatchlistOrderCounts == 0..3

(* lines 389-432 for one style: the tag and the 'New?' field that
   build_watchlist_30d writes into the row of a style whose master row
   carries age_days *)
WatchlistTagAndFlag(age_days, orders_recent, orders_prev) ==
    /\ Called
    /\ ret' = Returned("build_watchlist_30d.row",
                       [age_days |-> age_days, orders_recent |-> orders_recent,
                        orders_prev |-> orders_prev],
                       [Tag |-> WatchlistTag(age_days, orders_recent, orders_prev,
                                             Momentum(orders_recent, orders_prev),
                                             params.new_age_days,
                                             params.watch_min_orders),
                        New |-> WatchlistNewFlag(age_days, params.new_age_days)])
    /\ UNCHANGED <<params, sales_raw, returns_raw, catalog_raw, master_styles,
                   watchlist_30d, forecast>>

NextTag ==
    \E age_days \in WatchlistAges, orders_recent \in WatchlistOrderCounts,
       orders_prev \in 0..1 :
        WatchlistTagAndFlag(age_days, orders_recent, orders_prev)

SpecTag == Init /\ [][NextTag]_vars

(* C27: in every watchlist row the 'New?' field is 'YES' if and only if the
   row's Tag is 'NEW', whatever the age of the style, an age of 0 days
   included. *)
C27_NewFlagIffTagNew ==
    ret.op = "build_watchlist_30d.row"
        => (ret.value.New = "YES" <=> ret.value.Tag = "NEW")

(* a style first ordered today is tagged NEW and its 'New?' field is empty *)
C27_NewTagWithoutFlagAtAgeZero ==
    /\ ret.op = "build_watchlist_30d.row"
    /\ ret.arg.age_days = 0
    /\ ret.value.Tag = "NEW"
    /\ ret.value.New = ""

(* at every other age the two fields agree *)
C27_FlagAgreesAwayFromZero ==
    (ret.op = "build_watchlist_30d.row" /\ ret.arg.age_days # 0)
        => (ret.value.New = "YES" <=> ret.value.Tag = "NEW")

(* the rows of a stored watchlist carry no age, so none is NEW or flagged *)
C27_StoredRowsAgree ==
    ~watchlist_30d.isNone
        => \A i \in 1..Len(watchlist_30d.rows) :
               /\ watchlist_30d.rows[i].New = "YES"
                      <=> watchlist_30d.rows[i].Tag = "NEW"
               /\ watchlist_30d.rows[i].Tag # "NEW"

(***************************************************************************)
(* The settings page's "Clear All Data" button.                            *)
(***************************************************************************)
(* app.py 1113-1120: the button sets five attributes of the processor to
   None; the parameters and self.forecast are not among them.
   self.returns_insights is assigned nowhere but in __init__, where it is
   None, so it has no variable here. *)
ClearAllData ==
    /\ Called
    /\ sales_raw' = NoneTable
    /\ returns_raw' = NoneTable
    /\ catalog_raw' = NoneFrame
    /\ master_styles' = NoneTable
    /\ watchlist_30d' = NoneTable
    /\ ret' = Returned("Clear All Data", NoArg, NoArg)
    /\ UNCHANGED <<params, forecast>>

(* uploads, the builders and the button *)
NextClear ==
    \/ \E o \in UnnamedSalesImports : ImportSalesCsv(o)
    \/ \E o \in UnnamedReturnsImports : ImportReturnsCsv(o)
    \/ \E df \in UnnamedCatalogFrames : LoadCatalog(df)
    \/ BuildMasterTable
    \/ BuildWatchlist30d
    \/ BuildInventoryForecast
    \/ ClearAllData

SpecClear == Init /\ [][NextClear]_vars

Cleared == ret.op = "Clear All Data"

(* C28: after "Clear All Data", whatever was imported and built before it,
   the processor holds no raw and no derived table: sales_raw, returns_raw,
   catalog_raw, master_styles, watchlist_30d and forecast are all None. *)
C28_ClearLeavesNoTable ==
    Cleared => /\ sales_raw.isNone
               /\ returns_raw.isNone
               /\ catalog_raw.isNone
               /\ master_styles.isNone
               /\ watchlist_30d.isNone
               /\ forecast.isNone

(* the forecast of the cleared sales is still stored after the button *)
C28_ForecastSurvivesClear ==
    /\ Cleared
    /\ sales_raw.isNone
    /\ ~forecast.isNone
    /\ forecast.rows # <<>>

(* the five tables the button names are gone *)
C28_NamedTablesCleared ==
    Cleared => /\ sales_raw.isNone
               /\ returns_raw.isNone
               /\ catalog_raw.isNone
               /\ master_styles.isNone
               /\ watchlist_30d.isNone

(***************************************************************************)
(* The day numbers an importer writes and the KPI calculator reads.        *)
(***************************************************************************)
(* KPICalculator.kpi_total_orders_30d called on the table that
   DataImporters.import_sales_csv has just returned, with today_date =
   params.today *)
KpiTotalOrders30dOfImported ==
    /\ Called
    /\ ret.op = "DataImporters.import_sales_csv"
    /\ ret.raised = ""
    /\ ret' = Returned("kpi_total_orders_30d(imported)", Table(ret.value.data),
                       [total |-> kpi_total_orders_30d(Table(ret.value.data),
                                                       params.today)])
    /\ UNCHANGED <<params, sales_raw, returns_raw, catalog_raw,
                   master_styles, watchlist_30d, forecast>>

(* a sales file through either importer, then the KPI on its table *)
NextKpiImport ==
    \/ \E df \in KpiSalesFrames : DataImportersImportSalesCsv(df)
    \/ \E o \in KpiSalesImports : ImportSalesCsv(o)
    \/ KpiTotalOrders30dOfImported
    \/ KpiTotalOrders30d
    \/ GetKpis

SpecKpiImport == Init /\ [][NextKpiImport]_vars

(* the records of a table dated within the 30 days up to today, as get_kpis
   selects them (lines 730-733) *)
DatedInKpiWindow(rows) ==
    SelectSeq(rows, LAMBDA r : InRecent(r.OrderDate, params.today, KpiWindowDays))

(* C29: kpi_total_orders_30d reads the day numbers as the importer wrote
   them: on a table imported by DataImporters.import_sales_csv or by
   ProjectMProcessor.import_sales_csv it returns the number of imported
   records dated within the last 30 days up to today, the count that get_kpis
   reports as total_orders_30d for the same data and today. *)
C29_KpiReadsImportedDayNumbers ==
    /\ ret.op = "kpi_total_orders_30d(imported)"
           => ret.value.total = Len(DatedInKpiWindow(ret.arg.rows))
    /\ (ret.op = "kpi_total_orders_30d" /\ ~sales_raw.isNone)
           => ret.value.total = Len(DatedInKpiWindow(sales_raw.rows))
    /\ (ret.op = "get_kpis" /\ ~ret.value.empty)
           => ret.value.total_orders_30d = Len(DatedInKpiWindow(sales_raw.rows))

(* a table from DataImporters with records of the last 30 days and none
   dated after today, of which the KPI counts none *)
C29_ImportedRecentSalesNotCounted ==
    /\ ret.op = "kpi_total_orders_30d(imported)"
    /\ \A i \in 1..Len(ret.arg.rows) : ret.arg.rows[i].OrderDate <= params.today
    /\ Len(DatedInKpiWindow(ret.arg.rows)) > 0
    /\ ret.value.total = 0

(* on a DataImporters table the KPI counts nothing at all: its day numbers
   are ordinals, the KPI's limit is an ordinal plus 693594 *)
C29_ImportedNeverCounted ==
    ret.op = "kpi_total_orders_30d(imported)" => ret.value.total = 0

(* on the processor's table, whose day numbers carry the offset, the KPI
   counts the window's records whenever no sale is dated after today *)
C29_ProcessorDayNumbersRead ==
    (/\ ret.op = "kpi_total_orders_30d"
     /\ ~sales_raw.isNone
     /\ \A i \in 1..Len(sales_raw.rows) : sales_raw.rows[i].OrderDate <= params.today)
        => ret.value.total = Len(DatedInKpiWindow(sales_raw.rows))

(***************************************************************************)
(* BusinessCalculations.calculate_size_sku_allocation                      *)
(* (src/utils/calculations.py).  sku_shares is the sequence of the shares  *)
(* of the SKUs SkuNames[1], SkuNames[2], ...; the names are in ascending   *)
(* string order, so a larger index is a larger name.  Shares are exact     *)
(* fractions.                                                              *)
(***************************************************************************)
SkuNames == <<"L", "M", "S">>

MaxTotal == 12

RatioFloor(a) == a.num \div a.den

(* first pass, lines 183-193: floor(max(max(total * share, total * min_share),
   min_units)) *)
FirstPassAllocation(total_required, share, min_share, min_units) ==
    RatioFloor(RatioMax(RatioMax(RatioMul(IntRatio(total_required), share),
                                 RatioMul(IntRatio(total_required), min_share)),
                        IntRatio(min_units)))

(* lines 199-204: deserved / (actual + 1) *)
DeservedRatio(total_required, share, actual) ==
    Ratio(total_required * share.num, share.den * (actual + 1))

calculate_size_sku_allocation(total_required, sku_shares, min_share, min_units) ==
    LET skus == 1..Len(sku_shares)
        first == [i \in skus |->
                     FirstPassAllocation(total_required, sku_shares[i],
                                         min_share, min_units)]
        remaining == total_required - SumSeq(first)
        ranked == {i \in skus : sku_shares[i].num > 0}
        ratio(i) == DeservedRatio(total_required, sku_shares[i], first[i])
        (* sort(reverse=True) of the (ratio, sku) pairs: j comes before i *)
        before(j, i) == \/ RatioGt(ratio(j), ratio(i))
                        \/ RatioEq(ratio(j), ratio(i)) /\ j > i
        position(i) == Cardinality({j \in ranked : before(j, i)})
    IN  [i \in skus |->
            IF remaining > 0 /\ i \in ranked /\ position(i) < remaining
            THEN first[i] + 1
            ELSE first[i]]

(* share maps whose shares are not negative and sum to 1 *)
SkuShareMaps ==
    {<<Ratio(1, 1)>>,
     <<Ratio(1, 2), Ratio(1, 2)>>,
     <<Ratio(3, 4), Ratio(1, 4)>>,
     <<Ratio(1, 1), Ratio(0, 1)>>,
     <<Ratio(1, 2), Ratio(1, 4), Ratio(1, 4)>>,
     <<Ratio(1, 4), Ratio(1, 2), Ratio(1, 4)>>,
     <<Ratio(3, 4), Ratio(1, 4), Ratio(0, 1)>>,
     <<Ratio(8, 10), Ratio(1, 10), Ratio(1, 10)>>}

(* called with the default min_share = 0.05 and min_units = 1 *)
CalculateSizeSkuAllocation(total_required, sku_shares) ==
    /\ Called
    /\ ret' = Returned("calculate_size_sku_allocation",
                       [total_required |-> total_required,
                        sku_shares |-> sku_shares,
                        min_share |-> Ratio(5, 100), min_units |-> 1],
                       [allocations |->
                            calculate_size_sku_allocation(total_required, sku_shares,
                                                          Ratio(5, 100), 1)])
    /\ UNCHANGED <<params, sales_raw, returns_raw, catalog_raw, master_styles,
                   watchlist_30d, forecast>>

NextAllocation ==
    \E total_required \in 0..MaxTotal, sku_shares \in SkuShareMaps :
        CalculateSizeSkuAllocation(total_required, sku_shares)

SpecAllocation == Init /\ [][NextAllocation]_vars

Allocated == ret.op = "calculate_size_sku_allocation"

(* C30: calculate_size_sku_allocation distributes exactly the requested
   total: for every total_required >= 0 and every share map with
   non-negative shares summing to 1, the allocations sum to total_required
   and every SKU receives at least min_units. *)
C30_AllocationsSumToTotal ==
    Allocated =>
        /\ SumSeq(ret.value.allocations) = ret.arg.total_required
        /\ \A i \in 1..Len(ret.value.allocations) :
               ret.value.allocations[i] >= ret.arg.min_units

(* every share is positive and the total covers min_units for every SKU, yet
   more than the total is allocated *)
C30_MoreThanTotalAllocated ==
    /\ Allocated
    /\ \A i \in 1..Len(ret.arg.sku_shares) : ret.arg.sku_shares[i].num > 0
    /\ ret.arg.total_required >= Len(ret.arg.sku_shares) * ret.arg.min_units
    /\ SumSeq(ret.value.allocations) > ret.arg.total_required

(* a total of 0 is answered with one unit per SKU *)
C30_UnitsAllocatedOfNothing ==
    /\ Allocated
    /\ ret.arg.total_required = 0
    /\ SumSeq(ret.value.allocations) > 0

(* never less than the total is allocated, and never less than min_units to
   a SKU *)
C30_AtLeastTotalAndMinUnits ==
    Allocated =>
        /\ SumSeq(ret.value.allocations) >= ret.arg.total_required
        /\ \A i \in 1..Len(ret.value.allocations) :
               ret.value.allocations[i] >= ret.arg.min_units

(* the second pass has handed out what the floors of the first left over *)
C30_RemainderDistributed ==
    /\ Allocated
    /\ SumSeq(ret.value.allocations) = ret.arg.total_required
    /\ \E i \in 1..Len(ret.arg.sku_shares) :
           ret.value.allocations[i]
               > FirstPassAllocation(ret.arg.total_required, ret.arg.sku_shares[i],
                                     ret.arg.min_share, ret.arg.min_units)
====
